---- MODULE Spec2Model ----
(***************************************************************************)
(* A model of interactive-git-versioneer's version planning (tags/actions, *)
(* tags/tagger, core/git_ops) and of its resumable changelog generation    *)
(* (releases/changelog_actions, changelog_gen, changelog_progress).        *)
(*                                                                         *)
(* Strings that the code parses or formats (tag names) are sequences of    *)
(* one-character strings, so that parse_version and the f-string that      *)
(* renders a version are computed, not assumed.                            *)
(***************************************************************************)
EXTENDS Integers, Sequences, FiniteSets, TLC

VARIABLES
    \* ---- the repository and the batch (tags/actions.py, tags/tagger.py)
    repo_tags,              \* repo.tags: the set of tag names
    commits,                \* the batch: a sequence of Commit records
    dry_run,                \* the dry_run argument
    tg_pc,                  \* position inside apply_tags / run_auto_tagger
    pending_versions,       \* apply_tags: pending_versions
    commit_to_version,      \* apply_tags: commit_to_version
    tg_i,                   \* index of the loop over processed_commits
    assigned,               \* the tag name each loop iteration used, in order
    success_count,          \* success_count / tags_created
    error_count,            \* error_count
    \* ---- the environment
    changelog_file_versions,\* CHANGELOG.md: the labels of its "## [label]" headers
    io_faults,              \* how many more writes the environment may fail or kill
    \* ---- the changelog orchestrator and its progress store
    tags,                   \* the repository's tags in chronological order
    no_commit_ranges,       \* the to-tags whose range resolves to no commit
    file,                   \* .git/igv_changelog_progress.json
    pc,                     \* position inside the orchestrator
    rebuild,                \* the rebuild argument of the current run
    progress,               \* the in-memory progress dict
    idx,                    \* index of the current range (1-based)
    user_skipped,           \* user_skipped flag
    auto_continue,          \* auto_continue flag
    generated_count,        \* generated_count
    skipped_count,          \* skipped_count
    runs,                   \* how many runs of the orchestrator were started
    \* ---- observation of the current run (what was called, what was decided)
    loaded,                 \* the mapping the run loaded at its start
    decision,               \* per range: what the loop did with it
    gen_calls,              \* range keys generate_changelog was called for
    sum_calls,              \* range keys the summarizer was called for
    ai_failed,              \* range keys whose summarizer call failed
    paused_at,              \* range keys after which the operator was asked
    answered,               \* the keys the operator answered with at the pauses
    saved_before,           \* the mapping on disk when the last save began
    \* ---- the commit-range resolver (releases/changelog_gen.py)
    rs_parents,             \* the history: the parents of every commit
    rs_date,                \* committed_datetime of every commit
    rs_tag,                 \* repo.tags: the commit every tag points to
    git_faulty,             \* whether a git rev-list call may fail
    rs_pc,                  \* position inside _get_commits_between_tags
    from_tag,               \* the from_tag argument
    to_tag,                 \* the to_tag argument
    rs_commits,             \* the local list `commits`
    rs_result,              \* the returned list
    rs_via,                 \* the strategy that returned (0: none yet)
    rs_failed,              \* the strategies whose try block raised
    \* ---- functions applied to one input (core/version_ops.py,
    \*      core/git_ops.py, save_changelog_from_progress)
    fn_op,                  \* which function is applied
    fn_arg,                 \* its arguments
    fn_out,                 \* what it returned (<<>> before the call)
    \* ---- the configuration file ~/.igv/config.json (config/config.py)
    cfg_config,             \* the JSON object of the file
    cfg_sets,               \* the set_config_value calls made, in order
    cfg_got,                \* the last get_config_value call and its result
    \* ---- two processes running the changelog orchestrator on one repository
    cc_file,                \* the progress file they share
    cc_pc,                  \* where each process is
    cc_idx,                 \* the range each process is at
    cc_progress,            \* each process's ai_changelogs_by_range
    cc_written,             \* the (key, content) entries ever written to the file
    \* ---- the modification of tags (tags/tagger.py, tags/actions.py)
    rn_tags,                \* the tags of the repository: name -> commit and message
    rn_last,                \* the last modification: what was asked and how it ended
    rn_count                \* the modifications made

tagVars  == <<repo_tags, commits, dry_run, tg_pc, pending_versions,
              commit_to_version, tg_i, assigned, success_count, error_count>>
orchVars == <<tags, no_commit_ranges, file, pc, rebuild, progress,
              idx, user_skipped, auto_continue, generated_count, skipped_count,
              runs, loaded, decision, gen_calls, sum_calls, ai_failed,
              paused_at, answered, saved_before>>
resVars  == <<rs_parents, rs_date, rs_tag, git_faulty, rs_pc, from_tag, to_tag,
              rs_commits, rs_result, rs_via, rs_failed>>
fnVars   == <<fn_op, fn_arg, fn_out>>
cfgVars  == <<cfg_config, cfg_sets, cfg_got>>
ccVars   == <<cc_file, cc_pc, cc_idx, cc_progress, cc_written>>
rnVars   == <<rn_tags, rn_last, rn_count>>
auxVars  == <<cfgVars, ccVars, rnVars>>
coreVars == <<tagVars, changelog_file_versions, io_faults, orchVars, resVars, fnVars>>
vars     == <<coreVars, auxVars>>

----------------------------------------------------------------------------
\* Bounds of the model.

\* Longest batch of commits handed to apply_tags / run_auto_tagger.
MaxBatch == 4
\* Most tags the orchestrated repository holds.
MaxTags == 3
\* Most runs of the orchestrator in one behaviour.
MaxRuns == 2
\* Most operations on the repository's files (a write or an unlink of the
\* progress file, the creation of a tag) that the environment fails or cuts
\* short in one behaviour.
MaxFaults == 1
\* The number of commits of the history the resolver is run on.
MaxCommits == 3
\* The highest major or minor field of the versions in a version report.
MaxField == 1
\* The most dot-separated fields of a name given to parse_version.
MaxFields == 4
\* The most entries of a progress dict a changelog is saved from.
MaxEntries == 3
\* The most set_config_value calls of one behaviour.
MaxSets == 3
\* The number of tags of the repository two processes work on.
MaxConcTags == 2
\* The most modifications of tags in one behaviour.
MaxRenames == 2

----------------------------------------------------------------------------
\* Characters, integers and strings (Python's str.split, int, str).

DigitChars == <<"0", "1", "2", "3", "4", "5", "6", "7", "8", "9">>

IsDigit(c) == \E i \in 1..Len(DigitChars) : DigitChars[i] = c

DigitVal(c) == (CHOOSE i \in 1..Len(DigitChars) : DigitChars[i] = c) - 1

IsDigits(s) == Len(s) > 0 /\ \A i \in 1..Len(s) : IsDigit(s[i])

RECURSIVE DigitsVal(_)
DigitsVal(s) ==
    IF s = <<>> THEN 0
    ELSE 10 * DigitsVal(SubSeq(s, 1, Len(s) - 1)) + DigitVal(s[Len(s)])

\* int(s) succeeds on an optional sign followed by decimal digits.
IsInt(s) ==
    \/ IsDigits(s)
    \/ Len(s) > 1 /\ s[1] \in {"-", "+"} /\ IsDigits(Tail(s))

int(s) ==
    IF s[1] = "-" THEN 0 - DigitsVal(Tail(s))
    ELSE IF s[1] = "+" THEN DigitsVal(Tail(s))
    ELSE DigitsVal(s)

RECURSIVE NatStr(_)
NatStr(n) ==
    IF n < 10 THEN <<DigitChars[n + 1]>>
    ELSE NatStr(n \div 10) \o <<DigitChars[(n % 10) + 1]>>

\* str(n), as an f-string renders an int.
str(n) == IF n < 0 THEN <<"-">> \o NatStr(0 - n) ELSE NatStr(n)

\* s.split(sep): the fields between the separators, empty fields kept.
RECURSIVE split(_, _)
split(s, sep) ==
    IF \A i \in 1..Len(s) : s[i] # sep THEN <<s>>
    ELSE LET k == CHOOSE i \in 1..Len(s) :
                      s[i] = sep /\ \A j \in 1..(i - 1) : s[j] # sep
         IN  <<SubSeq(s, 1, k - 1)>> \o split(SubSeq(s, k + 1, Len(s)), sep)

----------------------------------------------------------------------------
\* Versions (core/git_ops.py).

\* Python's tuple order on (major, minor, patch).
VLess(a, b) ==
    \/ a[1] < b[1]
    \/ a[1] = b[1] /\ a[2] < b[2]
    \/ a[1] = b[1] /\ a[2] = b[2] /\ a[3] < b[3]

VLeq(a, b) == a = b \/ VLess(a, b)

\* parse_version: one leading lower-case "v" is removed, the rest is split
\* on "."; three or more fields whose first three are ints give the tuple,
\* anything else (0, 0, 0).
parse_version(tag) ==
    LET version_str == IF Len(tag) > 0 /\ tag[1] = "v" THEN Tail(tag) ELSE tag
        parts       == split(version_str, ".")
    IN  IF Len(parts) >= 3 /\ IsInt(parts[1]) /\ IsInt(parts[2]) /\ IsInt(parts[3])
        THEN <<int(parts[1]), int(parts[2]), int(parts[3])>>
        ELSE <<0, 0, 0>>

\* f"v{major}.{minor}.{patch}"
format_version(v) ==
    <<"v">> \o str(v[1]) \o <<".">> \o str(v[2]) \o <<".">> \o str(v[3])

\* An absent tag name (Optional[str] = None).
NoTag == <<>>

\* The last of the tags sorted by parse_version, descending.
get_last_tag_lowest(repo) ==
    IF repo = {} THEN NoTag
    ELSE CHOOSE t \in repo : \A u \in repo : VLeq(parse_version(t), parse_version(u))

\* get_last_tag: the first tag of repo.tags sorted by parse_version,
\* descending; None when there is no tag.
get_last_tag(repo) ==
    IF repo = {} THEN NoTag
    ELSE CHOOSE t \in repo : \A u \in repo : VLeq(parse_version(u), parse_version(t))

get_last_version_number(repo) ==
    LET last_tag == get_last_tag(repo)
    IN  IF last_tag = NoTag THEN <<0, 0, 0>> ELSE parse_version(last_tag)

VersionTypes == {"major", "minor", "patch"}

\* A minor bump that keeps the patch number.
get_next_version_minor_keeps_patch(repo, version_type) ==
    LET v == get_last_version_number(repo)
    IN  IF version_type = "major" THEN format_version(<<v[1] + 1, 0, 0>>)
        ELSE IF version_type = "minor" THEN format_version(<<v[1], v[2] + 1, v[3]>>)
        ELSE format_version(<<v[1], v[2], v[3] + 1>>)

\* get_next_version for a valid version_type (any other raises ValueError).
get_next_version(repo, version_type) ==
    LET v == get_last_version_number(repo)
    IN  IF version_type = "major" THEN format_version(<<v[1] + 1, 0, 0>>)
        ELSE IF version_type = "minor" THEN format_version(<<v[1], v[2] + 1, 0>>)
        ELSE format_version(<<v[1], v[2], v[3] + 1>>)

----------------------------------------------------------------------------
\* The batch of commits (core/models.py) and the planner of apply_tags.

\* version_type = None: the commit was given no bump type.
NoType == "None"

\* processed_commits = [c for c in commits if c.version_type]
processed_commits(cs) == SelectSeq(cs, LAMBDA c : c.version_type # NoType)

\* A major bump that clears minor and patch but keeps the major number.
bump_major_not_incremented(v, version_type) ==
    IF version_type = "major" THEN <<v[1], 0, 0>>
    ELSE IF version_type = "minor" THEN <<v[1], v[2] + 1, 0>>
    ELSE IF version_type = "patch" THEN <<v[1], v[2], v[3] + 1>>
    ELSE v

\* A minor bump that forgets to clear the patch number.
bump_minor_keeps_patch(v, version_type) ==
    IF version_type = "major" THEN <<v[1] + 1, 0, 0>>
    ELSE IF version_type = "minor" THEN <<v[1], v[2] + 1, v[3]>>
    ELSE IF version_type = "patch" THEN <<v[1], v[2], v[3] + 1>>
    ELSE v

\* repo.create_tag returns (TRUE) or raises, which the loops catch.
CreateOutcomes(faults) == IF faults > 0 THEN BOOLEAN ELSE {TRUE}

\* One pass of the planning loop's body: the running (major, minor, patch)
\* after a commit of the given type.
bump(v, version_type) ==
    IF version_type = "major" THEN <<v[1] + 1, 0, 0>>
    ELSE IF version_type = "minor" THEN <<v[1], v[2] + 1, 0>>
    ELSE IF version_type = "patch" THEN <<v[1], v[2], v[3] + 1>>
    ELSE v

\* The planning loop: the tag name of every processed commit, in order,
\* from the running version v.
RECURSIVE plan(_, _)
plan(v, cs) ==
    IF cs = <<>> THEN <<>>
    ELSE LET n == bump(v, Head(cs).version_type)
         IN  <<format_version(n)>> \o plan(n, Tail(cs))

\* The base version of apply_tags.
base_version(repo) ==
    LET last_tag == get_last_tag(repo)
    IN  IF last_tag # NoTag THEN parse_version(last_tag) ELSE <<0, 0, 0>>

\* show_tag_preview (tags/views.py): the tag names it prints, one per
\* processed commit, each get_next_version of the repository as it is.
show_tag_preview(repo, cs) ==
    LET pcs == processed_commits(cs)
    IN  [i \in 1..Len(pcs) |-> get_next_version(repo, pcs[i].version_type)]

----------------------------------------------------------------------------
\* apply_tags (tags/actions.py).

ApplyTagsBegin ==
    /\ tg_pc = "idle"
    /\ LET pcs     == processed_commits(commits)
           planned == plan(base_version(repo_tags), pcs)
           missing == {i \in 1..Len(planned) : planned[i] \notin changelog_file_versions}
       IN  IF pcs = <<>>
           THEN /\ tg_pc' = "returned_false"
                /\ UNCHANGED <<pending_versions, commit_to_version>>
           ELSE /\ pending_versions' = planned
                /\ commit_to_version' =
                       [h \in {pcs[i].hash : i \in 1..Len(pcs)} |->
                           \* later commits overwrite earlier ones of the same hash
                           planned[CHOOSE i \in 1..Len(pcs) :
                                       /\ pcs[i].hash = h
                                       /\ \A j \in (i + 1)..Len(pcs) : pcs[j].hash # h]]
                /\ tg_pc' = IF missing # {} THEN "apply_confirm" ELSE "apply_loop"
    /\ tg_i' = 1
    /\ UNCHANGED <<repo_tags, commits, dry_run, assigned, success_count, error_count,
                   changelog_file_versions, io_faults, orchVars, resVars, fnVars, auxVars>>

\* The operator answers the "changelog is out of date" question.
ApplyTagsConfirm ==
    /\ tg_pc = "apply_confirm"
    /\ \E answer \in {"s", "n", "KeyboardInterrupt"} :
           tg_pc' = IF answer = "s" THEN "apply_loop" ELSE "returned_false"
    /\ UNCHANGED <<repo_tags, commits, dry_run, pending_versions, commit_to_version,
                   tg_i, assigned, success_count, error_count,
                   changelog_file_versions, io_faults, orchVars, resVars, fnVars, auxVars>>

\* One pass of the loop that creates the tags.
ApplyTagsStep ==
    /\ tg_pc = "apply_loop"
    /\ tg_i <= Len(processed_commits(commits))
    /\ LET commit   == processed_commits(commits)[tg_i]
           next_ver == commit_to_version[commit.hash]
       IN  /\ assigned' = Append(assigned, next_ver)
           /\ IF dry_run \/ next_ver \in repo_tags
              THEN UNCHANGED <<repo_tags, success_count, error_count, io_faults>>
              ELSE \E created \in CreateOutcomes(io_faults) :
                       IF created
                       THEN /\ repo_tags' = repo_tags \cup {next_ver}
                            /\ success_count' = success_count + 1
                            /\ UNCHANGED <<error_count, io_faults>>
                       ELSE /\ error_count' = error_count + 1
                            /\ io_faults' = io_faults - 1
                            /\ UNCHANGED <<repo_tags, success_count>>
    /\ tg_i' = tg_i + 1
    /\ UNCHANGED <<commits, dry_run, tg_pc, pending_versions, commit_to_version,
                   changelog_file_versions, orchVars, resVars, fnVars, auxVars>>

ApplyTagsEnd ==
    /\ tg_pc = "apply_loop"
    /\ tg_i > Len(processed_commits(commits))
    /\ tg_pc' = "returned_true"
    /\ UNCHANGED <<repo_tags, commits, dry_run, pending_versions, commit_to_version,
                   tg_i, assigned, success_count, error_count,
                   changelog_file_versions, io_faults, orchVars, resVars, fnVars, auxVars>>

----------------------------------------------------------------------------
\* run_auto_tagger (tags/tagger.py), from the point where every commit of
\* the batch has its version_type.

AutoTaggerBegin ==
    /\ tg_pc = "idle"
    /\ tg_pc' = "auto_loop"
    /\ tg_i' = 1
    /\ UNCHANGED <<repo_tags, commits, dry_run, pending_versions, commit_to_version,
                   assigned, success_count, error_count,
                   changelog_file_versions, io_faults, orchVars, resVars, fnVars, auxVars>>

\* One pass of the loop: the version is asked of the repository each time.
AutoTaggerStep ==
    /\ tg_pc = "auto_loop"
    /\ tg_i <= Len(processed_commits(commits))
    /\ LET commit   == processed_commits(commits)[tg_i]
           next_ver == get_next_version(repo_tags, commit.version_type)
       IN  /\ assigned' = Append(assigned, next_ver)
           /\ IF dry_run
              THEN /\ success_count' = success_count + 1
                   /\ UNCHANGED <<repo_tags, error_count, io_faults>>
              ELSE IF next_ver \in repo_tags
              THEN UNCHANGED <<repo_tags, success_count, error_count, io_faults>>
              ELSE \E created \in CreateOutcomes(io_faults) :
                       IF created
                       THEN /\ repo_tags' = repo_tags \cup {next_ver}
                            /\ success_count' = success_count + 1
                            /\ UNCHANGED <<error_count, io_faults>>
                       ELSE /\ error_count' = error_count + 1
                            /\ io_faults' = io_faults - 1
                            /\ UNCHANGED <<repo_tags, success_count>>
    /\ tg_i' = tg_i + 1
    /\ UNCHANGED <<commits, dry_run, tg_pc, pending_versions, commit_to_version,
                   changelog_file_versions, orchVars, resVars, fnVars, auxVars>>

AutoTaggerEnd ==
    /\ tg_pc = "auto_loop"
    /\ tg_i > Len(processed_commits(commits))
    /\ tg_pc' = "auto_done"
    /\ UNCHANGED <<repo_tags, commits, dry_run, pending_versions, commit_to_version,
                   tg_i, assigned, success_count, error_count,
                   changelog_file_versions, io_faults, orchVars, resVars, fnVars, auxVars>>

----------------------------------------------------------------------------
\* Range keys and the progress store (releases/changelog_progress.py).

StartMarker == <<"s", "t", "a", "r", "t">>
HeadMarker  == <<"H", "E", "A", "D">>
\* The arrow U+2192 of a range key: one character, three bytes in UTF-8.
Arrow == "->"

\* f"{display_from}→{display_to}"
range_key(display_from, display_to) == display_from \o <<Arrow>> \o display_to

\* The placeholder stored for a range without commits.
NoCommits == "[No commits]"

\* An empty dict.
EmptyMap == [k \in {} |-> ""]

\* The dict is emptied before the assignment.
MapSet_forgets(m, key, content) == [k \in {key} |-> content]

\* progress[key] = content
MapSet(m, key, content) ==
    [k \in DOMAIN m \cup {key} |-> IF k = key THEN content ELSE m[k]]

\* What the progress file can hold: nothing (no file), the JSON text of a
\* dict, or the beginning of such a text, cut either between characters
\* ("truncated": no valid JSON) or inside the bytes of a multi-byte
\* character ("bad_utf8": no valid UTF-8).
AbsentFile        == [kind |-> "absent", data |-> EmptyMap]
JsonFile(m)       == [kind |-> "json", data |-> m]
PartialFile(kind) == [kind |-> kind, data |-> EmptyMap]
PartialKinds      == {"truncated", "bad_utf8"}

\* _load_changelog_progress raises: only JSONDecodeError and IOError are
\* caught, and text that is no UTF-8 raises UnicodeDecodeError.
load_raises(f) == f.kind = "bad_utf8"

\* _load_changelog_progress, when it returns.
load_changelog_progress(f) ==
    IF f.kind = "json" THEN f.data ELSE EmptyMap

\* How a write of the progress file can end: "ok"; "open_fails" (IOError
\* before the file is touched); "write_fails" (IOError after open(.., "w")
\* emptied the file, caught and reported as a warning); "killed" (the
\* process dies during the write).
SaveOutcomes(faults) ==
    IF faults > 0 THEN {"ok", "open_fails", "write_fails", "killed"} ELSE {"ok"}

\* A save that leaves the file as it was.
save_not_written(f, m, outcome, partial) == f

\* _save_changelog_progress: the file after the call; `partial` is how much
\* of the text reached the disk when the write did not complete.
save_changelog_progress(f, m, outcome, partial) ==
    IF outcome = "ok" THEN JsonFile(m)
    ELSE IF outcome = "open_fails" THEN f
    ELSE PartialFile(partial)

\* _clear_changelog_progress: unlink when the file exists, IOError ignored.
clear_changelog_progress(f, outcome) ==
    IF f.kind # "absent" /\ outcome = "ok" THEN AbsentFile ELSE f

----------------------------------------------------------------------------
\* The ranges and their changelogs (releases/changelog_actions.py,
\* releases/changelog_gen.py).

\* A range list that starts every range at the beginning of the history.
ranges_all_from_start(ts) ==
    [i \in 1..Len(ts) |->
        [display_from |-> StartMarker, display_to |-> ts[i],
         git_from |-> NoTag, git_to |-> ts[i]]]

\* ranges_to_process: ("start", first tag), then every consecutive pair.
ranges_to_process(ts) ==
    [i \in 1..Len(ts) |->
        IF i = 1
        THEN [display_from |-> StartMarker, display_to |-> ts[1],
              git_from |-> NoTag, git_to |-> ts[1]]
        ELSE [display_from |-> ts[i - 1], display_to |-> ts[i],
              git_from |-> ts[i - 1], git_to |-> ts[i]]]

KeyOf(r) == range_key(r.display_from, r.display_to)

\* A generate_changelog that answers with text for an empty range too.
generate_changelog_never_empty(empty_ranges, git_from, git_to) == "No changes recorded."

\* generate_changelog: "" when the range resolves to no commit, the
\* categorised commit list otherwise.
generate_changelog(empty_ranges, git_from, git_to) ==
    IF git_to \in empty_ranges THEN "" ELSE "raw changelog"

\* How summarize_changelog_with_ai can end, and the string it returns.
AiOutcomes == {"ok", "config", "network"}

summarize_changelog_with_ai(raw_changelog_text, outcome) ==
    IF outcome = "ok" THEN "summary"
    ELSE IF outcome = "config" THEN "AI configuration error"
    ELSE "Error summarizing changelog with AI"

\* The keys of the operator at a pause (wait_for_enter_or_skip).
PauseActions == {"continue", "skip", "all", "quit", "cancel"}

\* A run is over in these positions.
Stopped == {"idle", "returned_early", "returned", "exited", "interrupted", "killed",
            "raised"}

NoDecisions == [i \in {} |-> ""]

\* A first skip test that forgets the rebuild flag.
skip_in_changelog_file_despite_rebuild(r, file_versions, rb) ==
    /\ r.display_to # HeadMarker
    /\ r.display_to \in file_versions

\* The first skip test of the loop: the target version already has a
\* header in CHANGELOG.md and no rebuild was asked for.
skip_in_changelog_file(r, file_versions, rb) ==
    /\ r.display_to # HeadMarker
    /\ r.display_to \in file_versions
    /\ ~rb

\* A loop that never consults the progress store.
skip_in_progress_never(key, prog, rb) == FALSE

\* The second skip test: the progress dict has the key (whatever its
\* content) and no rebuild was asked for.
skip_in_progress(key, prog, rb) == key \in DOMAIN prog /\ ~rb

\* save_changelog_from_progress: the labels of the sections it writes, one
\* per entry that is no placeholder and whose key splits in two at the arrow.
changelog_labels(prog) ==
    {IF split(k, Arrow)[2] = HeadMarker THEN <<"Unreleased">> ELSE split(k, Arrow)[2] :
        k \in {k2 \in DOMAIN prog : prog[k2] # NoCommits /\ Len(split(k2, Arrow)) = 2}}

----------------------------------------------------------------------------
\* action_generate_all_changelogs_with_ai (releases/changelog_actions.py).

\* Lines 171-320: the optional clear, the three early returns, the load of
\* the progress file and of the CHANGELOG.md headers.
Start ==
    /\ pc \in Stopped
    /\ runs < MaxRuns
    /\ runs' = runs + 1
    /\ \E rb \in BOOLEAN, cfg_ok \in BOOLEAN, untagged \in BOOLEAN,
          unlink \in (IF io_faults > 0 THEN {"ok", "fails"} ELSE {"ok"}) :
         LET cleared == IF rb THEN clear_changelog_progress(file, unlink) ELSE file
         IN  /\ rebuild' = rb
             /\ file' = cleared
             /\ IF ~cfg_ok \/ untagged \/ tags = <<>>
                THEN /\ pc' = "returned_early"
                     /\ progress' = EmptyMap
                ELSE IF load_raises(cleared)
                THEN /\ pc' = "raised"
                     /\ progress' = EmptyMap
                ELSE /\ pc' = "loop"
                     /\ progress' = load_changelog_progress(cleared)
             /\ loaded' = progress'
             /\ io_faults' = IF rb /\ unlink # "ok" THEN io_faults - 1 ELSE io_faults
    /\ idx' = 1
    /\ user_skipped' = FALSE
    /\ auto_continue' = FALSE
    /\ generated_count' = 0
    /\ skipped_count' = 0
    /\ decision' = NoDecisions
    /\ gen_calls' = {}
    /\ sum_calls' = {}
    /\ ai_failed' = {}
    /\ paused_at' = {}
    /\ answered' = {}
    /\ saved_before' = file'
    /\ UNCHANGED <<tagVars, resVars, fnVars, auxVars, changelog_file_versions, tags, no_commit_ranges>>

Decide(i, what) == [j \in DOMAIN decision \cup {i} |-> IF j = i THEN what ELSE decision[j]]

\* Lines 322-348 and 382-385: one range up to the call of the summarizer;
\* a range without commits is finished here.
ProcessRange ==
    /\ pc = "loop"
    /\ idx <= Len(tags)
    /\ LET r   == ranges_to_process(tags)[idx]
           key == KeyOf(r)
           raw_changelog == generate_changelog(no_commit_ranges, r.git_from, r.git_to)
       IN  IF user_skipped
           THEN /\ decision' = Decide(idx, "user_skipped")
                /\ idx' = idx + 1
                /\ UNCHANGED <<pc, progress, file, skipped_count, gen_calls, saved_before,
                               io_faults>>
           ELSE IF skip_in_changelog_file(r, changelog_file_versions, rebuild)
           THEN /\ decision' = Decide(idx, "skip_file")
                /\ skipped_count' = skipped_count + 1
                /\ idx' = idx + 1
                /\ UNCHANGED <<pc, progress, file, gen_calls, saved_before, io_faults>>
           ELSE IF skip_in_progress(key, progress, rebuild)
           THEN /\ decision' = Decide(idx, "skip_progress")
                /\ skipped_count' = skipped_count + 1
                /\ idx' = idx + 1
                /\ UNCHANGED <<pc, progress, file, gen_calls, saved_before, io_faults>>
           ELSE IF raw_changelog # ""
           THEN /\ decision' = Decide(idx, "generate")
                /\ gen_calls' = gen_calls \cup {key}
                /\ pc' = "summarize"
                /\ UNCHANGED <<idx, progress, file, skipped_count, saved_before, io_faults>>
           ELSE \E outcome \in SaveOutcomes(io_faults), partial \in PartialKinds :
                /\ decision' = Decide(idx, "no_commits")
                /\ gen_calls' = gen_calls \cup {key}
                /\ progress' = MapSet(progress, key, NoCommits)
                /\ saved_before' = file
                /\ file' = save_changelog_progress(file, progress', outcome, partial)
                /\ io_faults' = IF outcome = "ok" THEN io_faults ELSE io_faults - 1
                /\ IF outcome = "killed"
                   THEN pc' = "killed" /\ UNCHANGED idx
                   ELSE pc' = "loop" /\ idx' = idx + 1
                /\ UNCHANGED skipped_count
    /\ UNCHANGED <<tagVars, resVars, fnVars, auxVars, changelog_file_versions, tags, no_commit_ranges,
                   rebuild, user_skipped, auto_continue, generated_count, runs, loaded,
                   sum_calls, ai_failed, paused_at, answered>>

\* Lines 350-364: the summarizer returns, its string is stored and saved.
Summarize ==
    /\ pc = "summarize"
    /\ LET r   == ranges_to_process(tags)[idx]
           key == KeyOf(r)
           raw_changelog == generate_changelog(no_commit_ranges, r.git_from, r.git_to)
       IN  \E ai \in AiOutcomes, outcome \in SaveOutcomes(io_faults),
              partial \in PartialKinds :
             LET ai_changelog == summarize_changelog_with_ai(raw_changelog, ai)
             IN  /\ sum_calls' = sum_calls \cup {key}
                 /\ ai_failed' = IF ai = "ok" THEN ai_failed ELSE ai_failed \cup {key}
                 /\ progress' = MapSet(progress, key, ai_changelog)
                 /\ saved_before' = file
                 /\ file' = save_changelog_progress(file, progress', outcome, partial)
                 /\ io_faults' = IF outcome = "ok" THEN io_faults ELSE io_faults - 1
                 /\ generated_count' = generated_count + 1
                 /\ IF outcome = "killed"
                    THEN pc' = "killed" /\ UNCHANGED <<idx, paused_at>>
                    ELSE IF ~auto_continue
                    THEN pc' = "pause" /\ paused_at' = paused_at \cup {key}
                                       /\ UNCHANGED idx
                    ELSE pc' = "loop" /\ idx' = idx + 1 /\ UNCHANGED paused_at
    /\ UNCHANGED <<tagVars, resVars, fnVars, auxVars, changelog_file_versions, tags, no_commit_ranges,
                   rebuild, user_skipped, auto_continue, skipped_count, runs, loaded,
                   decision, gen_calls, answered>>

\* Ctrl+C while the summarizer's request is in flight: KeyboardInterrupt is
\* no Exception, so it leaves the function.
InterruptSummarize ==
    /\ pc = "summarize"
    /\ pc' = "interrupted"
    /\ UNCHANGED <<tagVars, resVars, fnVars, auxVars, changelog_file_versions, tags, no_commit_ranges, file,
                   io_faults, rebuild, progress, idx, user_skipped, auto_continue,
                   generated_count, skipped_count, runs, loaded, decision, gen_calls,
                   sum_calls, ai_failed, paused_at, answered, saved_before>>

\* A pause whose skip-rest answer is taken for a plain continue.
Pause_skip_forgotten ==
    /\ pc = "pause"
    /\ \E action \in PauseActions :
         /\ answered' = answered \cup {action}
         /\ user_skipped' = user_skipped
         /\ auto_continue' = (auto_continue \/ action = "all")
         /\ IF action = "quit" THEN pc' = "exited" /\ UNCHANGED idx
            ELSE IF action = "cancel" THEN pc' = "summary" /\ UNCHANGED idx
            ELSE pc' = "loop" /\ idx' = idx + 1
    /\ UNCHANGED <<tagVars, resVars, fnVars, auxVars, changelog_file_versions, tags, no_commit_ranges, file,
                   io_faults, rebuild, progress, generated_count, skipped_count, runs,
                   loaded, decision, gen_calls, sum_calls, ai_failed, paused_at,
                   saved_before>>

\* A pause whose auto-all answer holds for the next range only: the flag is
\* set by "all" and dropped by every other key.
Pause_all_forgotten ==
    /\ pc = "pause"
    /\ \E action \in PauseActions :
         /\ answered' = answered \cup {action}
         /\ user_skipped' = (user_skipped \/ action = "skip")
         /\ auto_continue' = FALSE
         /\ IF action = "quit" THEN pc' = "exited" /\ UNCHANGED idx
            ELSE IF action = "cancel" THEN pc' = "summary" /\ UNCHANGED idx
            ELSE pc' = "loop" /\ idx' = idx + 1
    /\ UNCHANGED <<tagVars, resVars, fnVars, auxVars, changelog_file_versions, tags, no_commit_ranges, file,
                   io_faults, rebuild, progress, generated_count, skipped_count, runs,
                   loaded, decision, gen_calls, sum_calls, ai_failed, paused_at,
                   saved_before>>

\* Lines 364-381: the operator's key at the pause.
Pause ==
    /\ pc = "pause"
    /\ \E action \in PauseActions :
         /\ answered' = answered \cup {action}
         /\ user_skipped' = (user_skipped \/ action = "skip")
         /\ auto_continue' = (auto_continue \/ action = "all")
         /\ IF action = "quit" THEN pc' = "exited" /\ UNCHANGED idx
            ELSE IF action = "cancel" THEN pc' = "summary" /\ UNCHANGED idx
            ELSE pc' = "loop" /\ idx' = idx + 1
    /\ UNCHANGED <<tagVars, resVars, fnVars, auxVars, changelog_file_versions, tags, no_commit_ranges, file,
                   io_faults, rebuild, progress, generated_count, skipped_count, runs,
                   loaded, decision, gen_calls, sum_calls, ai_failed, paused_at,
                   saved_before>>

\* The loop has visited every range.
LoopEnd ==
    /\ pc = "loop"
    /\ idx > Len(tags)
    /\ pc' = "summary"
    /\ UNCHANGED <<tagVars, resVars, fnVars, auxVars, changelog_file_versions, tags, no_commit_ranges, file,
                   io_faults, rebuild, progress, idx, user_skipped, auto_continue,
                   generated_count, skipped_count, runs, loaded, decision, gen_calls,
                   sum_calls, ai_failed, paused_at, answered, saved_before>>

\* Lines 387-446: the summary and the offer to write CHANGELOG.md, which
\* save_changelog_from_progress builds from the progress file it loads anew.
Summary ==
    /\ pc = "summary"
    /\ \E save_confirm \in {"s", "n", "KeyboardInterrupt"} :
         IF progress = EmptyMap \/ save_confirm # "s"
         THEN pc' = "returned" /\ UNCHANGED changelog_file_versions
         ELSE IF load_raises(file)
         THEN pc' = "raised" /\ UNCHANGED changelog_file_versions
         ELSE /\ pc' = "returned"
              /\ changelog_file_versions' =
                     IF load_changelog_progress(file) = EmptyMap
                     THEN changelog_file_versions
                     ELSE changelog_labels(load_changelog_progress(file))
    /\ UNCHANGED <<tagVars, resVars, fnVars, auxVars, tags, no_commit_ranges, file, io_faults, rebuild, progress,
                   idx, user_skipped, auto_continue, generated_count, skipped_count,
                   runs, loaded, decision, gen_calls, sum_calls, ai_failed, paused_at,
                   answered, saved_before>>

----------------------------------------------------------------------------
\* The commit-range resolver _get_commits_between_tags
\* (releases/changelog_gen.py) over a small history.

\* Commits are numbered 1..Len(parents); a parent has a smaller number.
RECURSIVE ancestors(_, _)
ancestors(parents, c) ==
    {c} \cup UNION {ancestors(parents, p) : p \in parents[c]}

\* A set of commits as a list, the highest number first.
RECURSIVE descending(_)
descending(S) ==
    IF S = {} THEN <<>>
    ELSE LET m == CHOOSE x \in S : \A y \in S : y <= x
         IN  <<m>> \o descending(S \ {m})

\* The order in which git lists history: the pending commit with the latest
\* commit date first (the earliest queued among equals), then its parents
\* join the pending ones.
RECURSIVE rev_walk(_, _, _, _)
rev_walk(parents, date, queue, seen) ==
    IF queue = <<>> THEN <<>>
    ELSE LET k == CHOOSE i \in 1..Len(queue) :
                      /\ \A j \in 1..Len(queue) : date[queue[j]] <= date[queue[i]]
                      /\ \A j \in 1..(i - 1) : date[queue[j]] < date[queue[i]]
             c    == queue[k]
             rest == SubSeq(queue, 1, k - 1) \o SubSeq(queue, k + 1, Len(queue))
             new  == descending(parents[c] \ seen)
         IN  <<c>> \o rev_walk(parents, date, rest \o new, seen \cup parents[c])

\* A name that is no tag of the repository.
MissingTag == <<"v", "9", ".", "9", ".", "9">>

\* Whether git resolves the name (repo.tags[name] does not raise).
tag_exists(tag_of, name) == name \in DOMAIN tag_of

\* list(repo.iter_commits(to_tag)): all the history of to_tag.
iter_commits(parents, date, tag_of, to) ==
    rev_walk(parents, date, <<tag_of[to]>>, {tag_of[to]})

\* A range that keeps the commit of from_tag: the history of to_tag without
\* the proper ancestors of from_tag's commit.
iter_commits_range_inclusive(parents, date, tag_of, from, to) ==
    SelectSeq(iter_commits(parents, date, tag_of, to),
              LAMBDA c : c \notin (ancestors(parents, tag_of[from]) \ {tag_of[from]}))

\* A range taken the wrong way round: the history of from_tag without that
\* of to_tag.
iter_commits_range_reversed(parents, date, tag_of, from, to) ==
    SelectSeq(iter_commits(parents, date, tag_of, from),
              LAMBDA c : c \notin ancestors(parents, tag_of[to]))

\* list(repo.iter_commits(f"{from_tag}..{to_tag}")): the history of to_tag
\* without the history of from_tag.
iter_commits_range(parents, date, tag_of, from, to) ==
    SelectSeq(iter_commits(parents, date, tag_of, to),
              LAMBDA c : c \notin ancestors(parents, tag_of[from]))

\* Whether a call of git may fail though its revisions exist.
GitFails(faulty) == IF faulty THEN BOOLEAN ELSE {FALSE}

\* The date filter of strategy 2 over the history of to_tag, with its break.
RECURSIVE date_window(_, _, _, _)
date_window(all_commits, date, from_date, to_date) ==
    IF all_commits = <<>> THEN <<>>
    ELSE LET d == date[Head(all_commits)]
         IN  IF from_date < d /\ d <= to_date
             THEN <<Head(all_commits)>> \o
                      date_window(Tail(all_commits), date, from_date, to_date)
             ELSE IF d <= from_date THEN <<>>
             ELSE date_window(Tail(all_commits), date, from_date, to_date)

\* sorted(repo.tags, key=lambda t: parse_version(t.name)), as names.
RECURSIVE sorted_by_version(_)
sorted_by_version(names) ==
    IF names = {} THEN <<>>
    ELSE LET t == CHOOSE t \in names :
                      \A u \in names : VLeq(parse_version(t), parse_version(u))
         IN  <<t>> \o sorted_by_version(names \ {t})

\* tag_names.index(to_tag), counted from 1.
index(seq, x) == CHOOSE i \in 1..Len(seq) : seq[i] = x /\ \A j \in 1..(i - 1) : seq[j] # x

\* A strategy 4 that gives up with the empty list.
last_resort_empty(tag_of, to) == <<>>

\* Strategy 4: the commit of to_tag alone.
last_resort(tag_of, to) == <<tag_of[to]>>

ResolveBegin ==
    /\ rs_pc = "idle"
    /\ \E f \in DOMAIN rs_tag \cup {MissingTag}, t \in DOMAIN rs_tag \cup {MissingTag} :
           from_tag' = f /\ to_tag' = t
    /\ rs_pc' = "strategy1"
    /\ rs_commits' = <<>>
    /\ UNCHANGED <<rs_parents, rs_date, rs_tag, git_faulty, rs_result, rs_via, rs_failed,
                   tagVars, changelog_file_versions, io_faults, orchVars, fnVars, auxVars>>

\* Strategy 1: the standard from_tag..to_tag range.
Strategy1 ==
    /\ rs_pc = "strategy1"
    /\ \E fails \in GitFails(git_faulty) :
         IF fails \/ ~tag_exists(rs_tag, from_tag) \/ ~tag_exists(rs_tag, to_tag)
         THEN /\ rs_failed' = rs_failed \cup {1}
              /\ rs_pc' = "strategy2"
              /\ UNCHANGED <<rs_commits, rs_result, rs_via>>
         ELSE LET listed == iter_commits_range(rs_parents, rs_date, rs_tag,
                                               from_tag, to_tag)
              IN  /\ rs_commits' = listed
                  /\ IF listed # <<>>
                     THEN rs_pc' = "returned" /\ rs_result' = listed /\ rs_via' = 1
                     ELSE rs_pc' = "strategy2" /\ UNCHANGED <<rs_result, rs_via>>
                  /\ UNCHANGED rs_failed
    /\ UNCHANGED <<rs_parents, rs_date, rs_tag, git_faulty, from_tag, to_tag,
                   tagVars, changelog_file_versions, io_faults, orchVars, fnVars, auxVars>>

\* Strategy 2: the same-commit test, then the commits of to_tag by date.
Strategy2 ==
    /\ rs_pc = "strategy2"
    /\ IF ~tag_exists(rs_tag, from_tag) \/ ~tag_exists(rs_tag, to_tag)
       THEN /\ rs_failed' = rs_failed \cup {2}
            /\ rs_pc' = "strategy3"
            /\ UNCHANGED <<rs_commits, rs_result, rs_via>>
       ELSE IF rs_tag[from_tag] = rs_tag[to_tag]
       THEN /\ rs_pc' = "returned" /\ rs_result' = <<>> /\ rs_via' = 2
            /\ UNCHANGED <<rs_commits, rs_failed>>
       ELSE \E fails \in GitFails(git_faulty) :
            IF fails
            THEN /\ rs_failed' = rs_failed \cup {2}
                 /\ rs_pc' = "strategy3"
                 /\ UNCHANGED <<rs_commits, rs_result, rs_via>>
            ELSE LET all_commits == iter_commits(rs_parents, rs_date, rs_tag, to_tag)
                     kept == date_window(all_commits, rs_date,
                                         rs_date[rs_tag[from_tag]],
                                         rs_date[rs_tag[to_tag]])
                 IN  /\ rs_commits' = rs_commits \o kept
                     /\ IF rs_commits' # <<>>
                        THEN rs_pc' = "returned" /\ rs_result' = rs_commits' /\ rs_via' = 2
                        ELSE rs_pc' = "strategy3" /\ UNCHANGED <<rs_result, rs_via>>
                     /\ UNCHANGED rs_failed
    /\ UNCHANGED <<rs_parents, rs_date, rs_tag, git_faulty, from_tag, to_tag,
                   tagVars, changelog_file_versions, io_faults, orchVars, fnVars, auxVars>>

\* Strategy 3: the range from the tag just below to_tag in version order.
Strategy3 ==
    /\ rs_pc = "strategy3"
    /\ LET tag_names == sorted_by_version(DOMAIN rs_tag)
       IN  IF ~tag_exists(rs_tag, to_tag) \/ index(tag_names, to_tag) = 1
           THEN /\ rs_pc' = "strategy4"
                /\ UNCHANGED <<rs_commits, rs_result, rs_via, rs_failed>>
           ELSE \E fails \in GitFails(git_faulty) :
                IF fails
                THEN /\ rs_failed' = rs_failed \cup {3}
                     /\ rs_pc' = "strategy4"
                     /\ UNCHANGED <<rs_commits, rs_result, rs_via>>
                ELSE LET prev_tag == tag_names[index(tag_names, to_tag) - 1]
                         listed   == iter_commits_range(rs_parents, rs_date, rs_tag,
                                                        prev_tag, to_tag)
                     IN  /\ rs_commits' = listed
                         /\ IF listed # <<>>
                            THEN rs_pc' = "returned" /\ rs_result' = listed /\ rs_via' = 3
                            ELSE rs_pc' = "strategy4" /\ UNCHANGED <<rs_result, rs_via>>
                         /\ UNCHANGED rs_failed
    /\ UNCHANGED <<rs_parents, rs_date, rs_tag, git_faulty, from_tag, to_tag,
                   tagVars, changelog_file_versions, io_faults, orchVars, fnVars, auxVars>>

\* Strategy 4 and the final `return commits`.
Strategy4 ==
    /\ rs_pc = "strategy4"
    /\ rs_pc' = "returned"
    /\ IF tag_exists(rs_tag, to_tag)
       THEN /\ rs_result' = last_resort(rs_tag, to_tag)
            /\ rs_via' = 4
            /\ UNCHANGED rs_failed
       ELSE /\ rs_result' = rs_commits
            /\ rs_via' = 5
            /\ rs_failed' = rs_failed \cup {4}
    /\ UNCHANGED <<rs_parents, rs_date, rs_tag, git_faulty, from_tag, to_tag, rs_commits,
                   tagVars, changelog_file_versions, io_faults, orchVars, fnVars, auxVars>>

----------------------------------------------------------------------------
\* The version report of action_update_project_version
\* (core/version_ops.py).

\* Python's order on tuples of ints of any length: the first differing
\* field decides, a proper prefix is the smaller.
tuple_less(a, b) ==
    \/ \E k \in 1..Len(a) :
          /\ k <= Len(b)
          /\ \A j \in 1..(k - 1) : a[j] = b[j]
          /\ a[k] < b[k]
    \/ Len(a) < Len(b) /\ \A j \in 1..Len(a) : a[j] = b[j]

\* version_tuple: the ints of the first three fields at most, however few
\* the fields are; (0, 0, 0) when one of them is no int.
version_tuple(v) ==
    LET parts == split(v, ".")
        first == SubSeq(parts, 1, IF Len(parts) < 3 THEN Len(parts) ELSE 3)
    IN  IF \A i \in 1..Len(first) : IsInt(first[i])
        THEN [i \in 1..Len(first) |-> int(first[i])]
        ELSE <<0, 0, 0>>

\* s.lstrip("v"): every leading lower-case "v" is removed.
RECURSIVE lstrip_v(_)
lstrip_v(s) == IF Len(s) > 0 /\ s[1] = "v" THEN lstrip_v(Tail(s)) ELSE s

Unreleased == <<"U", "n", "r", "e", "l", "e", "a", "s", "e", "d">>

\* get_changelog_versions: the labels of the "## [label]" headers of
\* CHANGELOG.md in file order, the Unreleased one left out.
get_changelog_versions(headers) == SelectSeq(headers, LAMBDA h : h # Unreleased)

\* An absent version (None).
NoVersion == <<>>

\* get_last_changelog_version: the first label, its leading "v"s removed.
get_last_changelog_version(headers) ==
    LET versions == get_changelog_versions(headers)
    IN  IF versions # <<>> THEN lstrip_v(versions[1]) ELSE NoVersion

\* The two sides of the comparison are exchanged.
manifest_classification_swapped(current_version, last_changelog_ver) ==
    IF last_changelog_ver = NoVersion THEN "no_data"
    ELSE IF tuple_less(version_tuple(current_version), version_tuple(last_changelog_ver))
         THEN "manifest_ahead"
    ELSE IF tuple_less(version_tuple(last_changelog_ver), version_tuple(current_version))
         THEN "manifest_behind"
    ELSE "synced"

\* Lines 197-226: the message on pyproject.toml against CHANGELOG.md; none
\* ("no_data") when the changelog has no version.
manifest_classification(current_version, last_changelog_ver) ==
    IF last_changelog_ver = NoVersion THEN "no_data"
    ELSE IF tuple_less(version_tuple(last_changelog_ver), version_tuple(current_version))
         THEN "manifest_ahead"
    ELSE IF tuple_less(version_tuple(current_version), version_tuple(last_changelog_ver))
         THEN "manifest_behind"
    ELSE "synced"

\* A tag behind the changelog is not reported.
tag_flag_never_behind(last_tag_version, last_changelog_ver) ==
    IF last_tag_version = NoVersion \/ last_changelog_ver = NoVersion THEN "none"
    ELSE IF tuple_less(version_tuple(last_changelog_ver), version_tuple(last_tag_version))
         THEN "tag_ahead_of_changelog"
    ELSE "none"

\* Lines 228-242: the message on the last tag against CHANGELOG.md, whatever
\* the message on pyproject.toml was.
tag_flag(last_tag_version, last_changelog_ver) ==
    IF last_tag_version = NoVersion \/ last_changelog_ver = NoVersion THEN "none"
    ELSE IF tuple_less(version_tuple(last_changelog_ver), version_tuple(last_tag_version))
         THEN "tag_ahead_of_changelog"
    ELSE IF tuple_less(version_tuple(last_tag_version), version_tuple(last_changelog_ver))
         THEN "changelog_ahead_of_tag"
    ELSE "none"

\* Lines 142-242: without a version in pyproject.toml the function returns
\* before the report; otherwise the report carries both messages.
version_report(repo, headers, current_version) ==
    LET last_tag           == get_last_tag(repo)
        last_tag_version   == IF last_tag # NoTag THEN lstrip_v(last_tag) ELSE NoVersion
        last_changelog_ver == get_last_changelog_version(headers)
    IN  IF current_version = NoVersion
        THEN [shown |-> FALSE, classification |-> "no_data", tag_flag |-> "none",
              tag_version |-> last_tag_version, changelog_version |-> last_changelog_ver]
        ELSE [shown |-> TRUE,
              classification |-> manifest_classification(current_version, last_changelog_ver),
              tag_flag |-> tag_flag(last_tag_version, last_changelog_ver),
              tag_version |-> last_tag_version, changelog_version |-> last_changelog_ver]

\* action_update_project_version up to its report, on the tags, the
\* CHANGELOG.md headers and the pyproject.toml version it reads.
ActionUpdateProjectVersion ==
    /\ fn_op = "action_update_project_version"
    /\ fn_out = <<>>
    /\ fn_out' = version_report(fn_arg.repo, fn_arg.headers, fn_arg.current_version)
    /\ UNCHANGED <<fn_op, fn_arg, tagVars, changelog_file_versions, io_faults, orchVars,
                   resVars, auxVars>>

----------------------------------------------------------------------------
\* The input loop and the write of action_update_project_version
\* (core/version_ops.py, lines 260-355).

Letters ==
    {"a", "b", "c", "d", "e", "f", "g", "h", "i", "j", "k", "l", "m", "n", "o", "p", "q",
     "r", "s", "t", "u", "v", "w", "x", "y", "z"}

\* The first position of character c in s, 0 when there is none.
find(s, c) ==
    IF \A i \in 1..Len(s) : s[i] # c THEN 0
    ELSE CHOOSE i \in 1..Len(s) : s[i] = c /\ \A j \in 1..(i - 1) : s[j] # c

\* (0|[1-9]\d*)
NumericId(s) == IsDigits(s) /\ (Len(s) = 1 \/ s[1] # "0")

\* [0-9a-zA-Z-]+
AlnumId(s) ==
    Len(s) > 0 /\ \A i \in 1..Len(s) : IsDigit(s[i]) \/ s[i] \in Letters \/ s[i] = "-"

\* (?:0|[1-9]\d*|\d*[a-zA-Z-][0-9a-zA-Z-]*)
PreReleaseId(s) == AlnumId(s) /\ (IsDigits(s) => NumericId(s))

\* is_valid_semver: three numeric fields, then an optional "-" with
\* dot-separated pre-release identifiers, then an optional "+" with
\* dot-separated build identifiers.
is_valid_semver(version_str) ==
    LET plus   == find(version_str, "+")
        noBld  == IF plus = 0 THEN version_str ELSE SubSeq(version_str, 1, plus - 1)
        build  == SubSeq(version_str, plus + 1, Len(version_str))
        dash   == find(noBld, "-")
        core   == IF dash = 0 THEN noBld ELSE SubSeq(noBld, 1, dash - 1)
        pre    == SubSeq(noBld, dash + 1, Len(noBld))
        fields == split(core, ".")
    IN  /\ Len(fields) = 3
        /\ \A i \in 1..3 : NumericId(fields[i])
        /\ dash # 0 => \A i \in 1..Len(split(pre, ".")) : PreReleaseId(split(pre, ".")[i])
        /\ plus # 0 => \A i \in 1..Len(split(build, ".")) : AlnumId(split(build, ".")[i])

\* get_suggested_version: the last changelog version, else the last tag
\* without its "v"s, else 0.0.1.
get_suggested_version(repo, headers) ==
    IF get_last_changelog_version(headers) # NoVersion
    THEN get_last_changelog_version(headers)
    ELSE IF get_last_tag(repo) = NoTag THEN <<"0", ".", "0", ".", "1">>
    ELSE lstrip_v(get_last_tag(repo))

\* new_version_stripped in [v.lstrip("v") for v in changelog_versions]
version_in_changelog(new_version_stripped, headers) ==
    \E i \in 1..Len(get_changelog_versions(headers)) :
        lstrip_v(get_changelog_versions(headers)[i]) = new_version_stripped

\* Lines 295-340: which confirmation the input is put to: the override one
\* when its version_tuple is greater than the last changelog version's, the
\* rollback one when it is not and the input is not a changelog version,
\* none otherwise and when the changelog has no version.
confirmation_asked(new_version, headers) ==
    LET last_changelog_ver   == get_last_changelog_version(headers)
        new_version_stripped == lstrip_v(new_version)
    IN  IF last_changelog_ver = NoVersion THEN "none"
        ELSE IF tuple_less(version_tuple(last_changelog_ver),
                           version_tuple(new_version_stripped))
             THEN "override"
        ELSE IF ~version_in_changelog(new_version_stripped, headers)
                /\ new_version_stripped # last_changelog_ver
             THEN "rollback"
        ELSE "none"

\* One pass of the loop of lines 260-340 and the write of lines 342-349, on
\* the line the operator types and the answer they give to a confirmation
\* ("s", anything else, or Ctrl-C): the version pyproject.toml holds
\* afterwards and the confirmation that was asked.
update_project_version(repo, headers, current_version, typed, answer) ==
    LET new_version == IF typed = <<>> THEN get_suggested_version(repo, headers) ELSE typed
        asked       == confirmation_asked(new_version, headers)
        last        == get_last_changelog_version(headers)
        kept(why)   == [manifest |-> current_version, asked |-> "none", outcome |-> why,
                        changelog_version |-> last]
    IN  IF current_version = NoVersion THEN kept("no_version")
        ELSE IF new_version \in {<<"c">>, <<"C">>} THEN kept("cancelled")
        ELSE IF ~is_valid_semver(new_version) THEN kept("asked_again")
        ELSE IF new_version = current_version THEN kept("asked_again")
        ELSE IF asked # "none" /\ answer # "s"
             THEN [manifest |-> current_version, asked |-> asked, outcome |-> "declined",
                   changelog_version |-> last]
        ELSE [manifest |-> new_version, asked |-> asked, outcome |-> "written",
              changelog_version |-> last]

\* action_update_project_version from the prompt for the new version on.
UpdateProjectVersion ==
    /\ fn_op = "update_project_version"
    /\ fn_out = <<>>
    /\ fn_out' = update_project_version(fn_arg.repo, fn_arg.headers, fn_arg.current_version,
                                        fn_arg.typed, fn_arg.answer)
    /\ UNCHANGED <<fn_op, fn_arg, tagVars, changelog_file_versions, io_faults, orchVars,
                   resVars, auxVars>>

----------------------------------------------------------------------------
\* save_changelog_from_progress (releases/changelog_actions.py), on the
\* progress dict as the list of its (key, content) items in the order
\* Python iterates them.

\* Lines 711-715: HEAD sorts with (999, 999, 999); a tag of the repository
\* with its parse_version; any other name with (0, 0, 0).
sort_key(to_part, repo) ==
    IF to_part = HeadMarker THEN <<999, 999, 999>>
    ELSE IF to_part \in repo THEN parse_version(to_part)
    ELSE <<0, 0, 0>>

\* Lines 699-717: the placeholders and the keys that do not split in two at
\* the arrow are left out.
range_items(items, repo) ==
    LET kept == SelectSeq(items, LAMBDA it :
                    it.content # NoCommits /\ Len(split(it.key, Arrow)) = 2)
    IN  [i \in 1..Len(kept) |->
            LET to_part == split(kept[i].key, Arrow)[2]
            IN  [sort_key |-> sort_key(to_part, repo), to_part |-> to_part,
                 content |-> kept[i].content]]

\* Line 720: list.sort(key, reverse=True): descending, items of equal key
\* in their original order.
RECURSIVE sort_reverse(_)
sort_reverse(its) ==
    IF its = <<>> THEN <<>>
    ELSE LET n      == Len(its)
             x      == its[n]
             sorted == sort_reverse(SubSeq(its, 1, n - 1))
             k      == Cardinality({i \in 1..Len(sorted) :
                                       VLeq(x.sort_key, sorted[i].sort_key)})
         IN  SubSeq(sorted, 1, k) \o <<x>> \o SubSeq(sorted, k + 1, Len(sorted))

\* Lines 722-736: the "## [label]" sections in file order.
changelog_sections(items, repo) ==
    LET sorted == sort_reverse(range_items(items, repo))
    IN  [i \in 1..Len(sorted) |->
            [label   |-> IF sorted[i].to_part = HeadMarker THEN Unreleased
                         ELSE sorted[i].to_part,
             to_part |-> sorted[i].to_part,
             content |-> sorted[i].content]]

\* save_changelog_from_progress: nothing is written for an empty progress
\* dict; otherwise the document has the sections.
SaveChangelogFromProgress ==
    /\ fn_op = "save_changelog_from_progress"
    /\ fn_out = <<>>
    /\ fn_out' = IF fn_arg.items = <<>>
                 THEN [saved |-> FALSE, sections |-> <<>>]
                 ELSE [saved |-> TRUE,
                       sections |-> changelog_sections(fn_arg.items, fn_arg.repo)]
    /\ UNCHANGED <<fn_op, fn_arg, tagVars, changelog_file_versions, io_faults, orchVars,
                   resVars, auxVars>>

\* get_next_version: a version_type that is none of the three raises
\* ValueError before the tags are read.
GetNextVersion ==
    /\ fn_op = "get_next_version"
    /\ fn_out = <<>>
    /\ fn_out' = IF fn_arg.version_type \notin VersionTypes
                 THEN [raised |-> "ValueError", value |-> NoTag]
                 ELSE [raised |-> "no",
                       value |-> get_next_version(fn_arg.repo, fn_arg.version_type)]
    /\ UNCHANGED <<fn_op, fn_arg, tagVars, changelog_file_versions, io_faults, orchVars,
                   resVars, auxVars>>

\* get_last_tag on the tags of a repository.
GetLastTag ==
    /\ fn_op = "get_last_tag"
    /\ fn_out = <<>>
    /\ fn_out' = [value |-> get_last_tag(fn_arg.repo)]
    /\ UNCHANGED <<fn_op, fn_arg, tagVars, changelog_file_versions, io_faults, orchVars,
                   resVars, auxVars>>

\* parse_version on a tag name.
ParseVersion ==
    /\ fn_op = "parse_version"
    /\ fn_out = <<>>
    /\ fn_out' = [value |-> parse_version(fn_arg.tag)]
    /\ UNCHANGED <<fn_op, fn_arg, tagVars, changelog_file_versions, io_faults, orchVars,
                   resVars, auxVars>>

----------------------------------------------------------------------------
\* The configuration file (config/config.py): a JSON object whose values
\* are strings or nested objects.

Leaf(value) == [kind |-> "str", value |-> value]
Dict(items) == [kind |-> "dict", items |-> items]

\* {} : the file is absent or the object is empty.
EmptyConfig == Dict([k \in {} |-> Leaf("")])

\* None
NoValue == "None"

\* current[k] = node
DictSet(d, k, node) ==
    Dict([j \in DOMAIN d.items \cup {k} |-> IF j = k THEN node ELSE d.items[j]])

\* The value is stored under the first component only.
set_path_flat(d, keys, value) == DictSet(d, keys[1], Leaf(value))

\* The loop and the final assignment of set_config_value: every component
\* but the last is entered, made an empty object when it is missing or no
\* object; the last one is assigned the value.
RECURSIVE set_path(_, _, _)
set_path(d, keys, value) ==
    IF Len(keys) = 1 THEN DictSet(d, keys[1], Leaf(value))
    ELSE LET k     == keys[1]
             child == IF k \in DOMAIN d.items /\ d.items[k].kind = "dict"
                      THEN d.items[k] ELSE EmptyConfig
         IN  DictSet(d, k, set_path(child, Tail(keys), value))

\* The loop and the return of get_config_value: None when a component is
\* missing or is reached in something that is no object, and when the value
\* found is an object.
RECURSIVE get_path(_, _)
get_path(current, keys) ==
    IF keys = <<>>
    THEN IF current.kind = "dict" THEN NoValue ELSE current.value
    ELSE IF current.kind # "dict" \/ keys[1] \notin DOMAIN current.items THEN NoValue
    ELSE get_path(current.items[keys[1]], Tail(keys))

\* The keys and values of the calls.
ConfigKeys ==
    {<<"a">>, <<"b">>, <<"a", ".", "b">>, <<"a", ".", "c">>, <<"a", ".", "b", ".", "c">>}
ConfigValues == {"old", "new"}

\* set_config_value(key, value): load, assign, save.
SetConfigValue ==
    /\ cfg_config # <<>>
    /\ Len(cfg_sets) < MaxSets
    /\ \E key \in ConfigKeys, value \in ConfigValues :
         /\ cfg_config' = set_path(cfg_config, split(key, "."), value)
         /\ cfg_sets' = Append(cfg_sets, [key |-> key, value |-> value])
    /\ cfg_got' = <<>>
    /\ UNCHANGED <<coreVars, ccVars, rnVars>>

\* get_config_value(key)
GetConfigValue ==
    /\ cfg_config # <<>>
    /\ \E key \in ConfigKeys :
         cfg_got' = [key |-> key, value |-> get_path(cfg_config, split(key, "."))]
    /\ UNCHANGED <<coreVars, ccVars, rnVars, cfg_config, cfg_sets>>

----------------------------------------------------------------------------
\* Two processes in action_generate_all_changelogs_with_ai on the same
\* repository (releases/changelog_actions.py, lines 253-385). Every range
\* has commits and every summary succeeds; the content of an entry is the
\* name of the process that wrote it.

Procs == {"p1", "p2"}

\* The tags of the shared repository, sorted.
ConcTags == [i \in 1..MaxConcTags |-> format_version(<<0, i, 0>>)]

\* Line 254: the process loads the progress file once, before its loop.
ConcStart(p) ==
    /\ cc_pc[p] = "idle"
    /\ cc_pc' = [cc_pc EXCEPT ![p] = "loop"]
    /\ cc_idx' = [cc_idx EXCEPT ![p] = 1]
    /\ cc_progress' = [cc_progress EXCEPT ![p] = load_changelog_progress(cc_file)]
    /\ UNCHANGED <<coreVars, cfgVars, rnVars, cc_file, cc_written>>

\* Lines 322-361: one range of the loop: skipped when the process's own
\* dict has its key, otherwise summarized, stored in the dict and the whole
\* dict written to the file.
ConcRange(p) ==
    /\ cc_pc[p] = "loop"
    /\ cc_idx[p] <= Len(ConcTags)
    /\ LET key == KeyOf(ranges_to_process(ConcTags)[cc_idx[p]])
       IN  IF skip_in_progress(key, cc_progress[p], FALSE)
           THEN UNCHANGED <<cc_progress, cc_file, cc_written>>
           ELSE /\ cc_progress' = [cc_progress EXCEPT ![p] = MapSet(@, key, p)]
                /\ cc_file' = save_changelog_progress(cc_file, cc_progress'[p], "ok",
                                                      "truncated")
                /\ cc_written' = cc_written \cup {<<key, p>>}
    /\ cc_idx' = [cc_idx EXCEPT ![p] = @ + 1]
    /\ UNCHANGED <<coreVars, cfgVars, rnVars, cc_pc>>

\* Lines 364-381 and the end of the loop: the operator quits at a pause or
\* the ranges are exhausted.
ConcEnd(p) ==
    /\ cc_pc[p] = "loop"
    /\ cc_pc' = [cc_pc EXCEPT ![p] = "done"]
    /\ UNCHANGED <<coreVars, cfgVars, rnVars, cc_file, cc_idx, cc_progress, cc_written>>

----------------------------------------------------------------------------
\* _get_commits_until_tag (releases/changelog_gen.py, lines 96-137).

\* The tags other than to_tag whose parse_version is below to_tag's.
lower_tags(tag_of, to) ==
    {t \in DOMAIN tag_of \ {to} : VLess(parse_version(t), parse_version(to))}

\* The lowest of the lower tags is taken as the limit.
prev_tag_lowest(tag_of, to) ==
    CHOOSE t \in lower_tags(tag_of, to) :
        \A u \in lower_tags(tag_of, to) : VLeq(parse_version(t), parse_version(u))

\* Lines 118-123: the first tag, in descending version order, that is below
\* to_tag.
prev_tag(tag_of, to) ==
    CHOOSE t \in lower_tags(tag_of, to) :
        \A u \in lower_tags(tag_of, to) : VLeq(parse_version(u), parse_version(t))

\* The function on to_tag, for the git calls that fail: rev-list of to_tag
\* (all), rev-list of the range (range) and the lookup of the tag's commit
\* (lookup). `via` is the return statement taken: 1 (line 126), 2 (line
\* 132) or 3 (line 137).
commits_until_tag(parents, date, tag_of, to, fails) ==
    IF fails.all \/ ~tag_exists(tag_of, to)
    THEN IF fails.lookup \/ ~tag_exists(tag_of, to)
         THEN [result |-> <<>>, via |-> 3, failed |-> {1, 2}]
         ELSE [result |-> <<tag_of[to]>>, via |-> 2, failed |-> {1}]
    ELSE LET all_commits == iter_commits(parents, date, tag_of, to)
         IN  IF lower_tags(tag_of, to) = {}
             THEN [result |-> all_commits, via |-> 1, failed |-> {}]
             ELSE IF ~fails.range
             THEN [result |-> iter_commits_range(parents, date, tag_of,
                                                 prev_tag(tag_of, to), to),
                   via |-> 1, failed |-> {}]
             ELSE IF ~fails.lookup
             THEN [result |-> <<tag_of[to]>>, via |-> 2, failed |-> {1}]
             ELSE [result |-> all_commits, via |-> 3, failed |-> {1, 2}]

GetCommitsUntilTag ==
    /\ rs_pc = "idle"
    /\ \E t \in DOMAIN rs_tag \cup {MissingTag},
          fails \in [all : GitFails(git_faulty), range : GitFails(git_faulty),
                     lookup : GitFails(git_faulty)] :
         LET out == commits_until_tag(rs_parents, rs_date, rs_tag, t, fails)
         IN  /\ to_tag' = t
             /\ rs_result' = out.result
             /\ rs_via' = out.via
             /\ rs_failed' = out.failed
    /\ rs_pc' = "until_returned"
    /\ UNCHANGED <<rs_parents, rs_date, rs_tag, git_faulty, from_tag, rs_commits,
                   tagVars, changelog_file_versions, io_faults, orchVars, fnVars, auxVars>>

----------------------------------------------------------------------------
\* The modification of a tag: run_modify_tag_submenu (tags/tagger.py, lines
\* 324-388) and change_last_tag (tags/actions.py, lines 296-365).

\* re.match(r"^v\d+\.\d+\.\d+", name): a "v", digits, ".", digits, ".", and
\* at least one digit; anything may follow.
valid_tag_name(name) ==
    /\ Len(name) > 0 /\ name[1] = "v"
    /\ LET fields == split(Tail(name), ".")
       IN  /\ Len(fields) >= 3
           /\ IsDigits(fields[1])
           /\ IsDigits(fields[2])
           /\ Len(fields[3]) > 0 /\ IsDigit(fields[3][1])

\* The name that is typed, with a "v" put before it when it has none.
with_v(typed) == IF Len(typed) > 0 /\ typed[1] = "v" THEN typed ELSE <<"v">> \o typed

\* repo.delete_tag(name)
delete_tag(tag_of, name) == [t \in DOMAIN tag_of \ {name} |-> tag_of[t]]

\* Whether repo.create_tag(name, ...) raises: git refuses a name that
\* exists.
create_tag_fails(tag_of, name) == name \in DOMAIN tag_of

\* repo.create_tag(name, ref=commit, message=message), when it succeeds.
create_tag(tag_of, name, commit, message) ==
    [t \in DOMAIN tag_of \cup {name} |->
        IF t = name THEN [commit |-> commit, message |-> message] ELSE tag_of[t]]

\* The try block of both functions: the old tag is deleted, then the new
\* one is created on the same commit; an exception of either call is
\* caught and reported, nothing is undone.
delete_then_create(tag_of, old_name, new_name, commit, message) ==
    LET deleted == delete_tag(tag_of, old_name)
    IN  IF create_tag_fails(deleted, new_name)
        THEN [tags |-> deleted, outcome |-> "create_failed"]
        ELSE [tags |-> create_tag(deleted, new_name, commit, message), outcome |-> "ok"]

\* The names and messages the operator types.
RenameNames    == {format_version(<<0, i, 0>>) : i \in 1..3}
RenameTyped    == RenameNames \cup {Tail(format_version(<<0, 2, 0>>)), <<"x">>, <<>>}
RenameMessages == {"first", "second"}

\* run_modify_tag_submenu on a selected tag: option 1 (name), 2 (message) or
\* 3 (both), the confirmation, then the delete and the create.
ModifyTag ==
    /\ rn_tags # <<>>
    /\ rn_count < MaxRenames
    /\ \E old_name \in DOMAIN rn_tags, option \in {"1", "2", "3"},
          input_name \in RenameTyped, input_msg \in RenameMessages \cup {""},
          confirm \in {"s", "n"} :
         LET old       == rn_tags[old_name]
             names     == option \in {"1", "3"}
             typed     == with_v(input_name)
             invalid   == names /\ input_name # <<>> /\ ~valid_tag_name(typed)
             new_name  == IF names /\ input_name # <<>> /\ ~invalid THEN typed ELSE old_name
             new_message == IF option \in {"2", "3"} /\ input_msg # ""
                            THEN input_msg ELSE old.message
             asked     == [old_name |-> old_name, new_name |-> new_name,
                           commit |-> old.commit]
         IN  IF invalid \/ (new_name = old_name /\ new_message = old.message)
                \/ confirm # "s"
             THEN /\ rn_last' = [asked EXCEPT !.new_name = old_name] @@ [outcome |-> "none"]
                  /\ UNCHANGED rn_tags
             ELSE LET out == delete_then_create(rn_tags, old_name, new_name, old.commit,
                                                new_message)
                  IN  /\ rn_tags' = out.tags
                      /\ rn_last' = asked @@ [outcome |-> out.outcome]
    /\ rn_count' = rn_count + 1
    /\ UNCHANGED <<coreVars, cfgVars, ccVars>>

\* change_last_tag: the same on the tag get_last_tag returns, with the new
\* version and the message asked one after the other.
ChangeLastTag ==
    /\ rn_tags # <<>>
    /\ rn_count < MaxRenames
    /\ get_last_tag(DOMAIN rn_tags) # NoTag
    /\ \E new_version \in RenameTyped, input_msg \in RenameMessages \cup {""},
          confirm \in {"s", "n"} :
         LET last_tag    == get_last_tag(DOMAIN rn_tags)
             old         == rn_tags[last_tag]
             typed       == with_v(new_version)
             new_message == IF input_msg # "" THEN input_msg ELSE old.message
             asked       == [old_name |-> last_tag, new_name |-> typed,
                             commit |-> old.commit]
         IN  IF new_version = <<>> \/ ~valid_tag_name(typed) \/ confirm # "s"
             THEN /\ rn_last' = [asked EXCEPT !.new_name = last_tag] @@ [outcome |-> "none"]
                  /\ UNCHANGED rn_tags
             ELSE LET out == delete_then_create(rn_tags, last_tag, typed, old.commit,
                                                new_message)
                  IN  /\ rn_tags' = out.tags
                      /\ rn_last' = asked @@ [outcome |-> out.outcome]
    /\ rn_count' = rn_count + 1
    /\ UNCHANGED <<coreVars, cfgVars, ccVars>>

----------------------------------------------------------------------------
\* Initial states and specifications.

\* The tags a repository may hold when a batch is tagged: a release and a
\* name with two fields only, which parse_version reads as (0, 0, 0).
TagPool == {<<"v", "1", ".", "2", ".", "3">>, <<"v", "0", ".", "9">>}

\* Batches of at most MaxBatch commits, at most one of them without a bump
\* type; a commit's hash is its position.
Batches ==
    {types \in UNION {[1..n -> VersionTypes \cup {NoType}] : n \in 0..MaxBatch} :
        Cardinality({i \in DOMAIN types : types[i] = NoType}) <= 1}

BatchOf(types) == [i \in DOMAIN types |-> [hash |-> i, version_type |-> types[i]]]

\* The i-th tag of the orchestrated repository, in chronological order.
ChronoTag(i) == format_version(<<0, i, 0>>)

\* The configuration file is not used.
CfgIdle ==
    /\ cfg_config = <<>>
    /\ cfg_sets = <<>>
    /\ cfg_got = <<>>

\* No second process: the orchestrator runs alone.
CcIdle ==
    /\ cc_file = <<>>
    /\ cc_pc = <<>>
    /\ cc_idx = <<>>
    /\ cc_progress = <<>>
    /\ cc_written = {}

\* No tag is modified.
RnIdle ==
    /\ rn_tags = <<>>
    /\ rn_last = <<>>
    /\ rn_count = 0

AuxIdle ==
    /\ CfgIdle
    /\ CcIdle
    /\ RnIdle

\* No function call is made.
FnIdle ==
    /\ fn_op = "none"
    /\ fn_arg = <<>>
    /\ fn_out = <<>>

ResIdle ==
    /\ rs_parents = <<>>
    /\ rs_date = <<>>
    /\ rs_tag = EmptyMap
    /\ git_faulty = FALSE
    /\ rs_pc = "off"
    /\ from_tag = NoTag
    /\ to_tag = NoTag
    /\ rs_commits = <<>>
    /\ rs_result = <<>>
    /\ rs_via = 0
    /\ rs_failed = {}

TagIdle ==
    /\ repo_tags = {}
    /\ commits = <<>>
    /\ dry_run = FALSE
    /\ tg_pc = "off"
    /\ pending_versions = <<>>
    /\ commit_to_version = EmptyMap
    /\ tg_i = 1
    /\ assigned = <<>>
    /\ success_count = 0
    /\ error_count = 0

OrchIdle ==
    /\ tags = <<>>
    /\ no_commit_ranges = {}
    /\ file = AbsentFile
    /\ pc = "off"
    /\ rebuild = FALSE
    /\ progress = EmptyMap
    /\ idx = 1
    /\ user_skipped = FALSE
    /\ auto_continue = FALSE
    /\ generated_count = 0
    /\ skipped_count = 0
    /\ runs = 0
    /\ loaded = EmptyMap
    /\ decision = NoDecisions
    /\ gen_calls = {}
    /\ sum_calls = {}
    /\ ai_failed = {}
    /\ paused_at = {}
    /\ answered = {}
    /\ saved_before = AbsentFile

\* A repository with some tags and a batch of commits, before apply_tags or
\* run_auto_tagger is called; CHANGELOG.md documents 0.0.1 and 1.2.4.
TagInit ==
    /\ repo_tags \in SUBSET TagPool
    /\ commits \in {BatchOf(types) : types \in Batches}
    /\ dry_run \in BOOLEAN
    /\ tg_pc = "idle"
    /\ pending_versions = <<>>
    /\ commit_to_version = EmptyMap
    /\ tg_i = 1
    /\ assigned = <<>>
    /\ success_count = 0
    /\ error_count = 0
    /\ changelog_file_versions = {format_version(<<0, 0, 1>>), format_version(<<1, 2, 4>>)}
    /\ io_faults = MaxFaults
    /\ OrchIdle
    /\ ResIdle
    /\ FnIdle
    /\ AuxIdle

TagNext ==
    \/ ApplyTagsBegin
    \/ ApplyTagsConfirm
    \/ ApplyTagsStep
    \/ ApplyTagsEnd
    \/ AutoTaggerBegin
    \/ AutoTaggerStep
    \/ AutoTaggerEnd

SpecTag == TagInit /\ [][TagNext]_vars

\* A repository of up to MaxTags tags before the first run of the
\* orchestrator: no progress file yet, any CHANGELOG.md.
OrchInit(faults) ==
    /\ TagIdle
    /\ ResIdle
    /\ FnIdle
    /\ AuxIdle
    /\ \E n \in 0..MaxTags : tags = [i \in 1..n |-> ChronoTag(i)]
    /\ no_commit_ranges \in SUBSET {tags[i] : i \in 1..Len(tags)}
    /\ changelog_file_versions \in SUBSET {tags[i] : i \in 1..Len(tags)}
    /\ file = AbsentFile
    /\ io_faults = faults
    /\ pc = "idle"
    /\ rebuild = FALSE
    /\ progress = EmptyMap
    /\ idx = 1
    /\ user_skipped = FALSE
    /\ auto_continue = FALSE
    /\ generated_count = 0
    /\ skipped_count = 0
    /\ runs = 0
    /\ loaded = EmptyMap
    /\ decision = NoDecisions
    /\ gen_calls = {}
    /\ sum_calls = {}
    /\ ai_failed = {}
    /\ paused_at = {}
    /\ answered = {}
    /\ saved_before = AbsentFile

Init == OrchInit(0)

Next ==
    \/ Start
    \/ ProcessRange
    \/ Summarize
    \/ InterruptSummarize
    \/ Pause
    \/ LoopEnd
    \/ Summary

\* The orchestrator where every write of the progress file completes.
Spec == Init /\ [][Next]_vars

InitFault == OrchInit(MaxFaults)

\* The orchestrator where a write of the progress file may fail or the
\* process may die in it.
SpecFault == InitFault /\ [][Next]_vars

\* The tags of the history the resolver is run on.
ResolverTags == {format_version(<<0, i, 0>>) : i \in 1..3}

\* Histories of MaxCommits commits: every commit has any of the two commits
\* before it as parents (none: a root), the commit dates follow the numbers,
\* are all equal, or run against them; the lowest tag is on the first commit
\* and every other tag points to some commit.
ResInit(faulty) ==
    /\ TagIdle
    /\ OrchIdle
    /\ FnIdle
    /\ AuxIdle
    /\ changelog_file_versions = {}
    /\ io_faults = 0
    /\ rs_parents \in {ps \in [1..MaxCommits -> SUBSET (1..MaxCommits)] :
                          \A c \in 1..MaxCommits :
                              ps[c] \subseteq {p \in {c - 1, c - 2} : p >= 1}}
    /\ rs_date \in {[c \in 1..MaxCommits |-> c], [c \in 1..MaxCommits |-> 1],
                    [c \in 1..MaxCommits |-> MaxCommits + 1 - c]}
    /\ rs_tag \in {tag_of \in [ResolverTags -> 1..MaxCommits] :
                       tag_of[format_version(<<0, 1, 0>>)] = 1}
    /\ git_faulty = faulty
    /\ rs_pc = "idle"
    /\ from_tag = NoTag
    /\ to_tag = NoTag
    /\ rs_commits = <<>>
    /\ rs_result = <<>>
    /\ rs_via = 0
    /\ rs_failed = {}

InitResolve == ResInit(FALSE)

ResNext ==
    \/ ResolveBegin
    \/ Strategy1
    \/ Strategy2
    \/ Strategy3
    \/ Strategy4

\* The resolver over a repository whose git calls succeed whenever their
\* revisions exist.
SpecResolve == InitResolve /\ [][ResNext]_vars

InitResolveFault == ResInit(TRUE)

\* The resolver where any call of git rev-list may fail.
SpecResolveFault == InitResolveFault /\ [][ResNext]_vars

\* The versions the report is computed on: (a, b, 0) with fields up to
\* MaxField.
ReportVersions == {<<a, b, 0>> : a \in 0..MaxField, b \in 0..MaxField}

\* A tag name of two fields.
ShortTag == <<"v", "0", ".", "9">>

\* Repositories of at most two tags.
ReportRepos ==
    {T \in SUBSET ({format_version(v) : v \in ReportVersions} \cup {ShortTag}) :
        Cardinality(T) <= 2}

\* CHANGELOG.md: absent or without header, an Unreleased header only, one
\* release header written with or without the "v", after an Unreleased
\* header or not, or a header of two fields.
ReportHeaders ==
    {<<>>, <<Unreleased>>, <<<<"1", ".", "1">>>>}
        \cup {<<Tail(format_version(v))>> : v \in ReportVersions}
        \cup {<<Unreleased, format_version(v)>> : v \in ReportVersions}

\* pyproject.toml: no version, a version of three fields or one of two.
ReportManifests ==
    {NoVersion, <<"2", ".", "0">>} \cup {Tail(format_version(v)) : v \in ReportVersions}

\* ".".join(fields)
RECURSIVE join(_)
join(fields) ==
    IF Len(fields) = 1 THEN fields[1]
    ELSE fields[1] \o <<".">> \o join(Tail(fields))

\* The names parse_version is applied to: a prefix and one to MaxFields
\* fields, each a number, a signed number, a word or empty.
ParseFields   == {<<"1">>, <<"2", "0">>, <<"-", "3">>, <<"a">>, <<>>}
ParsePrefixes == {<<>>, <<"v">>, <<"V">>, <<"v", "v">>}
ParseInputs ==
    {pre \o join(fields) :
        pre \in ParsePrefixes,
        fields \in UNION {[1..n -> ParseFields] : n \in 1..MaxFields}}

\* The progress dicts a changelog is saved from: at most MaxEntries items
\* with distinct keys, in any order, each a summary or the placeholder; the
\* keys are those of three successive tags and of the commits after the
\* last one. The repository holds any of the three tags (a tag can be
\* deleted or renamed after its range was summarized).
SavedTag(i)  == format_version(<<0, i, 0>>)
SavedKeys ==
    {range_key(StartMarker, SavedTag(1)), range_key(SavedTag(1), SavedTag(2)),
     range_key(SavedTag(2), SavedTag(3)), range_key(SavedTag(3), HeadMarker)}
SavedContents == {"### Added", NoCommits}
SavedItems ==
    {its \in UNION {[1..n -> [key : SavedKeys, content : SavedContents]] :
                        n \in 0..MaxEntries} :
        \A i, j \in 1..Len(its) : i # j => its[i].key # its[j].key}
SavedRepos == SUBSET {SavedTag(i) : i \in 1..3}

\* The repositories whose last tag and next version are asked for: any of
\* a release with a patch number, a name of two fields, and two more
\* releases.
VersionRepos ==
    SUBSET (TagPool \cup {format_version(<<0, MaxField, 1>>),
                          format_version(<<MaxField + 1, 0, 0>>)})

\* The bump types asked for: the three valid ones, an unknown word and None.
AskedTypes == VersionTypes \cup {"invalid", NoType}

\* The configuration file is absent at first.
InitConfig ==
    /\ TagIdle
    /\ OrchIdle
    /\ ResIdle
    /\ FnIdle
    /\ changelog_file_versions = {}
    /\ io_faults = 0
    /\ cfg_config = EmptyConfig
    /\ cfg_sets = <<>>
    /\ cfg_got = <<>>
    /\ CcIdle
    /\ RnIdle

ConfigNext ==
    \/ SetConfigValue
    \/ GetConfigValue

SpecConfig == InitConfig /\ [][ConfigNext]_vars

\* The update of pyproject.toml: a repository without tags or with v1.0.0;
\* a CHANGELOG.md without version, with 1.0.0 or 1.1.0 first, or as the
\* tool writes it for the tags v1.0.0 and v1.1.0-rc.1 (the pre-release
\* parses as (0, 0, 0) and is written last); pyproject.toml without version
\* or at 0.9.0 or 1.0.0; the operator types nothing, "c", a release, a
\* pre-release, a build, or something that is no SemVer.
UpdateRepos == {{}, {format_version(<<1, 0, 0>>)}}
PreRelease(v) == Tail(format_version(v)) \o <<"-", "r", "c", ".", "1">>
UpdateHeaders ==
    {<<>>,
     <<Tail(format_version(<<1, 0, 0>>))>>,
     <<Unreleased, format_version(<<1, 0, 0>>)>>,
     <<Tail(format_version(<<1, 1, 0>>))>>,
     <<format_version(<<1, 0, 0>>), <<"v">> \o PreRelease(<<1, 1, 0>>)>>}
UpdateManifests ==
    {NoVersion, Tail(format_version(<<0, 9, 0>>)), Tail(format_version(<<1, 0, 0>>))}
UpdateTyped ==
    {<<>>, <<"c">>, <<"1", ".", "1">>, format_version(<<1, 1, 0>>),
     Tail(format_version(<<1, 0, 0>>)), Tail(format_version(<<1, 1, 0>>)),
     Tail(format_version(<<2, 0, 0>>)), PreRelease(<<1, 1, 0>>), PreRelease(<<2, 0, 0>>),
     Tail(format_version(<<2, 0, 0>>)) \o <<"+", "b", "7">>}
UpdateAnswers == {"s", "n", "interrupt"}

\* Two processes that have not started, on a repository whose progress file
\* is absent or holds the first range already.
InitConc ==
    /\ TagIdle
    /\ OrchIdle
    /\ ResIdle
    /\ FnIdle
    /\ CfgIdle
    /\ RnIdle
    /\ changelog_file_versions = {}
    /\ io_faults = 0
    /\ cc_file \in {AbsentFile,
                    JsonFile(MapSet(EmptyMap, KeyOf(ranges_to_process(ConcTags)[1]), "p0"))}
    /\ cc_pc = [p \in Procs |-> "idle"]
    /\ cc_idx = [p \in Procs |-> 1]
    /\ cc_progress = [p \in Procs |-> EmptyMap]
    /\ cc_written = {<<k, cc_file.data[k]>> : k \in DOMAIN cc_file.data}

ConcNext ==
    \E p \in Procs :
        \/ ConcStart(p)
        \/ ConcRange(p)
        \/ ConcEnd(p)

SpecConc == InitConc /\ [][ConcNext]_vars

\* The histories _get_commits_until_tag is run on: as for the resolver, with
\* any one to three of the tags, each on any commit, and git calls that may
\* fail or not.
InitUntil ==
    /\ TagIdle
    /\ OrchIdle
    /\ FnIdle
    /\ AuxIdle
    /\ changelog_file_versions = {}
    /\ io_faults = 0
    /\ rs_parents \in {ps \in [1..MaxCommits -> SUBSET (1..MaxCommits)] :
                          \A c \in 1..MaxCommits :
                              ps[c] \subseteq {p \in {c - 1, c - 2} : p >= 1}}
    /\ rs_date \in {[c \in 1..MaxCommits |-> c], [c \in 1..MaxCommits |-> 1],
                    [c \in 1..MaxCommits |-> MaxCommits + 1 - c]}
    /\ rs_tag \in UNION {[T -> 1..MaxCommits] : T \in (SUBSET ResolverTags) \ {{}}}
    /\ git_faulty \in BOOLEAN
    /\ rs_pc = "idle"
    /\ from_tag = NoTag
    /\ to_tag = NoTag
    /\ rs_commits = <<>>
    /\ rs_result = <<>>
    /\ rs_via = 0
    /\ rs_failed = {}

UntilNext ==
    \/ GetCommitsUntilTag

SpecUntil == InitUntil /\ [][UntilNext]_vars

\* Repositories of one to three tags, each on one of two commits with one
\* of two messages.
InitRename ==
    /\ TagIdle
    /\ OrchIdle
    /\ ResIdle
    /\ FnIdle
    /\ CfgIdle
    /\ CcIdle
    /\ changelog_file_versions = {}
    /\ io_faults = 0
    /\ rn_tags \in UNION {[T -> [commit : {"c1", "c2"}, message : RenameMessages]] :
                             T \in (SUBSET RenameNames) \ {{}}}
    /\ rn_last = <<>>
    /\ rn_count = 0

RenameNext ==
    \/ ModifyTag
    \/ ChangeLastTag

SpecRename == InitRename /\ [][RenameNext]_vars

\* One call of one of the functions, on any of its inputs.
InitFn ==
    /\ TagIdle
    /\ OrchIdle
    /\ ResIdle
    /\ AuxIdle
    /\ changelog_file_versions = {}
    /\ io_faults = 0
    /\ fn_out = <<>>
    /\ \/ /\ fn_op = "action_update_project_version"
          /\ fn_arg \in [repo : ReportRepos, headers : ReportHeaders,
                         current_version : ReportManifests]
       \/ /\ fn_op = "save_changelog_from_progress"
          /\ fn_arg \in [items : SavedItems, repo : SavedRepos]
       \/ /\ fn_op = "parse_version"
          /\ fn_arg \in [tag : ParseInputs]
       \/ /\ fn_op = "get_next_version"
          /\ fn_arg \in [repo : VersionRepos, version_type : AskedTypes]
       \/ /\ fn_op = "get_last_tag"
          /\ fn_arg \in [repo : VersionRepos]
       \/ /\ fn_op = "update_project_version"
          /\ fn_arg \in [repo : UpdateRepos, headers : UpdateHeaders,
                         current_version : UpdateManifests, typed : UpdateTyped,
                         answer : UpdateAnswers]

FnNext ==
    \/ ActionUpdateProjectVersion
    \/ SaveChangelogFromProgress
    \/ ParseVersion
    \/ GetNextVersion
    \/ GetLastTag
    \/ UpdateProjectVersion

SpecFn == InitFn /\ [][FnNext]_vars

----------------------------------------------------------------------------
\* Properties of the planner (checked under SpecTag).

\* apply_tags has planned the batch and no tag was created yet.
Planned == tg_pc = "apply_confirm" \/ (tg_pc = "apply_loop" /\ tg_i = 1)

InApplyTags == tg_pc \in {"apply_confirm", "apply_loop", "returned_true"}

\* C1: in apply_tags the versions planned for the processed commits are
\* strictly increasing in batch order under the (major, minor, patch) order,
\* the first is strictly greater than the base (the highest existing tag, or
\* (0,0,0) without tags), and the loop assigns exactly these versions.
C1_StrictlyIncreasing ==
    InApplyTags =>
        /\ \A i \in 2..Len(pending_versions) :
               VLess(parse_version(pending_versions[i - 1]),
                     parse_version(pending_versions[i]))
        /\ Planned =>
               /\ Len(pending_versions) >= 1
               /\ \A t \in repo_tags :
                      VLess(parse_version(t), parse_version(pending_versions[1]))
               /\ VLess(<<0, 0, 0>>, parse_version(pending_versions[1]))
        /\ \A i \in 1..Len(assigned) : assigned[i] = pending_versions[i]

\* A batch of three was applied for real on top of v1.2.3.
C1_Witness ==
    /\ tg_pc = "returned_true"
    /\ ~dry_run
    /\ Len(assigned) >= 3
    /\ assigned[1] = <<"v", "1", ".", "2", ".", "4">>
    /\ success_count = Len(assigned)

\* The version the rules of the planner give after version v.
C2_Rule(v, t) ==
    CASE t = "major" -> <<v[1] + 1, 0, 0>>
      [] t = "minor" -> <<v[1], v[2] + 1, 0>>
      [] t = "patch" -> <<v[1], v[2], v[3] + 1>>

C2_Types == [i \in 1..Len(processed_commits(commits)) |->
                processed_commits(commits)[i].version_type]

\* C2: the plan holds one version per bump, in order, each obtained from
\* the one before it (the base for the first) by the rule of its bump; base
\* (1,2,3) with [patch, patch, minor, major] gives 1.2.4, 1.2.5, 1.3.0, 2.0.0.
C2_PlanStepByStep ==
    Planned =>
        /\ Len(pending_versions) = Len(C2_Types)
        /\ \A i \in 1..Len(pending_versions) :
               pending_versions[i] =
                   format_version(C2_Rule(
                       IF i = 1 THEN base_version(repo_tags)
                       ELSE parse_version(pending_versions[i - 1]),
                       C2_Types[i]))
        /\ (/\ base_version(repo_tags) = <<1, 2, 3>>
            /\ C2_Types = <<"patch", "patch", "minor", "major">>)
               => pending_versions = << <<"v", "1", ".", "2", ".", "4">>,
                                        <<"v", "1", ".", "2", ".", "5">>,
                                        <<"v", "1", ".", "3", ".", "0">>,
                                        <<"v", "2", ".", "0", ".", "0">> >>

\* The example of the specification was planned.
C2_Witness ==
    /\ Planned
    /\ base_version(repo_tags) = <<1, 2, 3>>
    /\ C2_Types = <<"patch", "patch", "minor", "major">>
    /\ Len(pending_versions) = 4

\* C3: in run_auto_tagger, when no tag creation failed, the commits of one
\* run get pairwise different tag names and versions that advance in commit
\* order, in dry-run mode as when the tags are created.
C3_OneVersionPerCommit ==
    (tg_pc \in {"auto_loop", "auto_done"} /\ error_count = 0) =>
        \A i \in 1..Len(assigned) : \A j \in (i + 1)..Len(assigned) :
            /\ assigned[i] # assigned[j]
            /\ VLess(parse_version(assigned[i]), parse_version(assigned[j]))

----------------------------------------------------------------------------
\* Properties of the orchestrator (checked under Spec) and of the progress
\* store under faults (checked under SpecFault).

Ranges == ranges_to_process(tags)

\* The current run got past its early returns and loaded the store.
Running == pc \in {"loop", "summarize", "pause", "summary", "returned", "exited",
                   "interrupted"}

\* The keys of the ranges this run completed: summarized, or found empty.
Completed ==
    sum_calls \cup {KeyOf(Ranges[i]) : i \in {j \in DOMAIN decision :
                                                 decision[j] = "no_commits"}}

\* C4: without rebuild, no range whose key the store held at the start of
\* the run is generated or summarized, and its content, in memory and on
\* disk, stays what it was.
C4_IdempotentResume ==
    (Running /\ ~rebuild) =>
        \A k \in DOMAIN loaded :
            /\ k \notin gen_calls
            /\ k \notin sum_calls
            /\ k \in DOMAIN progress /\ progress[k] = loaded[k]
            /\ ~load_raises(file)
            /\ k \in DOMAIN load_changelog_progress(file)
            /\ load_changelog_progress(file)[k] = loaded[k]

\* A resumed run found two stored ranges, generated the third and ended.
C4_Witness ==
    /\ pc = "returned"
    /\ ~rebuild
    /\ Cardinality(DOMAIN loaded) = 2
    /\ Cardinality(gen_calls) = 1
    /\ \A i \in 1..2 : KeyOf(Ranges[i]) \in DOMAIN loaded

Examined == {i \in DOMAIN decision : decision[i] # "user_skipped"}

Skipped(i) == decision[i] \in {"skip_file", "skip_progress"}

\* C6 as stated: without rebuild a range is skipped iff its to_marker is in
\* CHANGELOG.md or the store holds a non-placeholder entry for its key, any
\* other range is generated; with rebuild no range is skipped.
C6_SkipIffRealContent ==
    pc \in {"loop", "summarize", "pause", "summary"} =>
        \A i \in Examined :
            /\ rebuild => ~Skipped(i)
            /\ ~rebuild =>
                   (Skipped(i) <=>
                       \/ Ranges[i].display_to \in changelog_file_versions
                       \/ /\ KeyOf(Ranges[i]) \in DOMAIN loaded
                          /\ loaded[KeyOf(Ranges[i])] # NoCommits)
            /\ ~Skipped(i) => decision[i] \in {"generate", "no_commits"}

\* C6 as amended: without rebuild a range the loop reaches before a
\* skip-rest is skipped iff its to_marker has a header in CHANGELOG.md or the
\* store holds any entry for its key, the placeholder included; every other
\* such range goes to generation; with rebuild no range is skipped.
C6_SkipIffAnyEntry ==
    pc \in {"loop", "summarize", "pause", "summary"} =>
        \A i \in Examined :
            /\ rebuild => ~Skipped(i)
            /\ ~rebuild =>
                   (Skipped(i) <=>
                       \/ Ranges[i].display_to \in changelog_file_versions
                       \/ KeyOf(Ranges[i]) \in DOMAIN loaded)
            /\ ~Skipped(i) =>
                   /\ decision[i] \in {"generate", "no_commits"}
                   /\ KeyOf(Ranges[i]) \in gen_calls

\* A range whose stored entry is the placeholder was skipped, and a range
\* of the same run was generated.
C6_Witness ==
    /\ pc = "summary"
    /\ ~rebuild
    /\ \E i \in Examined :
           /\ decision[i] = "skip_progress"
           /\ loaded[KeyOf(Ranges[i])] = NoCommits
    /\ \E i \in Examined : decision[i] = "generate"

\* C7: a range whose summarizer call failed holds no generated entry (at
\* most the placeholder) and is not counted as generated, and the loop goes
\* on to the next range.
C7_FailureRecordedAsMissing ==
    Running =>
        /\ \A k \in ai_failed :
               k \in DOMAIN progress => progress[k] = NoCommits
        /\ generated_count <= Cardinality(sum_calls \ ai_failed)

\* C8: when the process dies during a save, a later load still returns the
\* entry that was stored before for every key other than the one being
\* saved.
C8_SaveAtomicUnderCrash ==
    pc = "killed" =>
        \A k \in DOMAIN load_changelog_progress(saved_before) \ {KeyOf(Ranges[idx])} :
            /\ ~load_raises(file)
            /\ k \in DOMAIN load_changelog_progress(file)
            /\ load_changelog_progress(file)[k] = load_changelog_progress(saved_before)[k]

\* C9: load never raises, gives the empty mapping without a file or with a
\* corrupt one, and gives back what the last save wrote.
C9_LoadFailSoft ==
    /\ pc # "raised"
    /\ (pc = "loop" /\ decision = NoDecisions /\ file.kind # "json") => loaded = EmptyMap
    /\ (pc = "pause" /\ io_faults = MaxFaults) =>
           load_changelog_progress(file) = progress

\* C10: a range that reaches generation and resolves to no commit gets the
\* placeholder in the store, in memory and on disk, without a summarizer
\* call and without a pause, and the loop is at a later range.
C10_EmptyRangePlaceholder ==
    Running =>
        \A i \in DOMAIN decision :
            /\ (decision[i] \in {"generate", "no_commits"}
                    /\ Ranges[i].git_to \in no_commit_ranges)
                   => decision[i] = "no_commits"
            /\ decision[i] = "no_commits" =>
                   /\ KeyOf(Ranges[i]) \in DOMAIN progress
                   /\ progress[KeyOf(Ranges[i])] = NoCommits
                   /\ KeyOf(Ranges[i]) \in DOMAIN load_changelog_progress(file)
                   /\ load_changelog_progress(file)[KeyOf(Ranges[i])] = NoCommits
                   /\ KeyOf(Ranges[i]) \notin sum_calls
                   /\ KeyOf(Ranges[i]) \notin paused_at
                   /\ idx > i

\* An empty first range was just given the placeholder and the loop stands
\* at the second range, with no pause so far.
C10_Witness ==
    /\ pc = "loop"
    /\ idx = 2
    /\ Len(tags) >= 2
    /\ 1 \in DOMAIN decision /\ decision[1] = "no_commits"
    /\ progress[KeyOf(Ranges[1])] = NoCommits
    /\ paused_at = {}

\* C11: once the operator answered skip-rest, no step of that run generates
\* or summarizes a range or writes the store, in memory or on disk, so the
\* entries written before the pause are still there when the run ends.
C11_SkipRestStops ==
    [][("skip" \in answered /\ runs' = runs) =>
           /\ gen_calls' = gen_calls
           /\ sum_calls' = sum_calls
           /\ progress' = progress
           /\ file' = file
           /\ generated_count' = generated_count]_vars

\* A run ended after skip-rest at the pause of its first range, with later
\* ranges left alone and the first entry on disk.
C11_Witness ==
    /\ pc = "returned"
    /\ "skip" \in answered
    /\ \E i \in DOMAIN decision : decision[i] = "user_skipped"
    /\ Cardinality(sum_calls) = 1
    /\ load_changelog_progress(file) = progress
    /\ sum_calls \subseteq DOMAIN progress

\* C12: once the operator answered auto-all, the run never pauses again,
\* and when its loop is over every range of the list was examined (skipped as
\* already done, generated, or found empty), none left to a later answer.
C12_AutoAllNoPause ==
    /\ [][("all" \in answered /\ runs' = runs) =>
              (pc' # "pause" /\ paused_at' = paused_at)]_vars
    /\ []("all" \in answered =>
              /\ "skip" \notin answered
              /\ pc \in {"summary", "returned"} =>
                     /\ DOMAIN decision = 1..Len(tags)
                     /\ \A i \in DOMAIN decision :
                            decision[i] \in {"skip_file", "skip_progress",
                                            "generate", "no_commits"}
                     /\ \A i \in DOMAIN decision :
                            decision[i] = "generate" => KeyOf(Ranges[i]) \in sum_calls)

\* Auto-all was answered at the first of three ranges and the other two were
\* summarized without a pause.
C12_Witness ==
    /\ pc = "returned"
    /\ "all" \in answered
    /\ Len(tags) = 3
    /\ Cardinality(sum_calls) = 3
    /\ paused_at = {KeyOf(Ranges[1])}

----------------------------------------------------------------------------
\* Properties of the resolver (checked under SpecResolve and, where git
\* calls may fail, under SpecResolveFault).

\* The call is over and both of its markers are tags of the repository.
Resolved ==
    /\ rs_pc = "returned"
    /\ tag_exists(rs_tag, from_tag)
    /\ tag_exists(rs_tag, to_tag)

FromCommit == rs_tag[from_tag]
ToCommit   == rs_tag[to_tag]

ResultSet == {rs_result[i] : i \in 1..Len(rs_result)}

\* C14: when both markers point to the same commit the result is the empty
\* list, whichever strategies ran or failed before; the single-commit
\* fallback of strategy 4 is not applied.
C14_SameCommitEmpty ==
    (Resolved /\ FromCommit = ToCommit) =>
        /\ rs_result = <<>>
        /\ rs_via = 2

\* Two different tags on one commit were resolved after the direct range
\* failed.
C14_Witness ==
    /\ Resolved
    /\ from_tag # to_tag
    /\ FromCommit = ToCommit
    /\ 1 \in rs_failed
    /\ rs_result = <<>>

\* C15: for two existing tags on different commits the call returns a list
\* of at least one commit, by one of the four strategies, also when the
\* commits have no ancestor relationship and when strategies 1 to 3 fail or
\* find nothing; strategy 4 returns the commit of to_tag.
C15_AtLeastOneCommit ==
    /\ rs_pc \in {"off", "idle", "strategy1", "strategy2", "strategy3", "strategy4",
                  "returned"}
    /\ (Resolved /\ FromCommit # ToCommit) =>
           /\ Len(rs_result) >= 1
           /\ rs_via \in 1..4
           /\ rs_via = 4 => rs_result = <<ToCommit>>

\* Strategy 4 answered for two commits without ancestor relationship after
\* the three strategies before it had failed.
C15_Witness ==
    /\ Resolved
    /\ rs_via = 4
    /\ rs_failed = {1, 2, 3}
    /\ FromCommit \notin ancestors(rs_parents, ToCommit)
    /\ ToCommit \notin ancestors(rs_parents, FromCommit)

----------------------------------------------------------------------------
\* The version report.

\* The report was computed.
Reported == fn_op = "action_update_project_version" /\ fn_out # <<>>

\* A version string of exactly three non-negative fields, "a.b.c".
Canonical(v) == v # NoVersion /\ v = Tail(format_version(parse_version(v)))

\* C17: the report classifies as no_data whenever CHANGELOG.md gives no
\* version, whatever the tags and pyproject.toml give; when the changelog
\* and pyproject.toml both give a version the classification is exactly one
\* of manifest_ahead, manifest_behind and synced, by the order of the two
\* version tuples: for versions of three fields manifest_ahead iff the
\* manifest is the greater, manifest_behind iff it is the smaller, synced
\* iff they are equal.
C17_ManifestClassification ==
    Reported =>
        LET changelog == fn_out.changelog_version
            manifest  == fn_arg.current_version
            m         == version_tuple(manifest)
            c         == version_tuple(changelog)
        IN  /\ changelog = NoVersion => fn_out.classification = "no_data"
            /\ changelog # NoVersion /\ manifest # NoVersion =>
                /\ fn_out.classification \in {"manifest_ahead", "manifest_behind", "synced"}
                /\ fn_out.classification = "manifest_ahead" <=> tuple_less(c, m)
                /\ fn_out.classification = "manifest_behind" <=> tuple_less(m, c)
                /\ fn_out.classification = "synced" <=> m = c
                /\ Canonical(changelog) /\ Canonical(manifest) =>
                    /\ fn_out.classification = "manifest_ahead"
                          <=> VLess(parse_version(changelog), parse_version(manifest))
                    /\ fn_out.classification = "manifest_behind"
                          <=> VLess(parse_version(manifest), parse_version(changelog))
                    /\ fn_out.classification = "synced"
                          <=> parse_version(manifest) = parse_version(changelog)

\* Tag 1.0.0, changelog 1.0.0 and manifest 1.1.0 are reported as
\* manifest_ahead.
C17_Witness ==
    /\ Reported
    /\ fn_arg.repo = {format_version(<<1, 0, 0>>)}
    /\ fn_out.changelog_version = Tail(format_version(<<1, 0, 0>>))
    /\ fn_arg.current_version = Tail(format_version(<<1, 1, 0>>))
    /\ fn_out.classification = "manifest_ahead"

\* The flag the tag and changelog versions t and c call for: the tag ahead
\* when it is the greater, the changelog ahead when the tag is the smaller,
\* none when they are equal.
ExpectedTagFlag(t, c) ==
    IF tuple_less(version_tuple(c), version_tuple(t)) THEN "tag_ahead_of_changelog"
    ELSE IF tuple_less(version_tuple(t), version_tuple(c)) THEN "changelog_ahead_of_tag"
    ELSE "none"

\* The same on versions of three fields, by the (major, minor, patch) order.
ExpectedTagFlagCanonical(t, c) ==
    IF VLess(parse_version(c), parse_version(t)) THEN "tag_ahead_of_changelog"
    ELSE IF VLess(parse_version(t), parse_version(c)) THEN "changelog_ahead_of_tag"
    ELSE "none"

\* C18 as stated: whenever the tag and the changelog both give a version,
\* the outcome carries tag_ahead_of_changelog when the tag is the greater,
\* changelog_ahead_of_tag when it is the smaller and no tag flag when they
\* are equal, whatever the manifest classification is.
C18_TagFlagIndependent ==
    Reported =>
        LET t == fn_out.tag_version
            c == fn_out.changelog_version
        IN  t # NoVersion /\ c # NoVersion =>
                /\ fn_out.tag_flag = ExpectedTagFlag(t, c)
                /\ Canonical(t) /\ Canonical(c) =>
                       fn_out.tag_flag = ExpectedTagFlagCanonical(t, c)

\* C18 as amended: the same, when pyproject.toml gives a version (without
\* one the function returns before the report).
C18_TagFlagWhenManifestPresent ==
    Reported /\ fn_arg.current_version # NoVersion =>
        LET t == fn_out.tag_version
            c == fn_out.changelog_version
        IN  /\ fn_out.shown
            /\ t # NoVersion /\ c # NoVersion =>
                /\ fn_out.tag_flag = ExpectedTagFlag(t, c)
                /\ Canonical(t) /\ Canonical(c) =>
                       fn_out.tag_flag = ExpectedTagFlagCanonical(t, c)

\* A report that carries a manifest classification and a tag flag together:
\* the manifest behind the changelog, the changelog ahead of the tag.
C18_Witness ==
    /\ Reported
    /\ fn_out.shown
    /\ fn_out.classification = "manifest_behind"
    /\ fn_out.tag_flag = "changelog_ahead_of_tag"
    /\ Canonical(fn_out.tag_version)
    /\ Canonical(fn_out.changelog_version)

----------------------------------------------------------------------------
\* The final changelog document.

\* A changelog document was written.
Saved == fn_op = "save_changelog_from_progress" /\ fn_out # <<>> /\ fn_out.saved

\* The to_marker of a progress key.
ToMarker(key) == split(key, Arrow)[2]

\* The order of the range keys: HEAD above every version, the versions by
\* the VersionTuple of the name.
MarkerLeq(a, b) ==
    \/ b = HeadMarker
    \/ a # HeadMarker /\ VLeq(parse_version(a), parse_version(b))

\* C19: the document has one section per entry that is no placeholder and
\* none for a placeholder, the sections are in descending order of the
\* VersionTuple of their to_marker with HEAD above every version, and the
\* HEAD section is labelled Unreleased.
C19_SectionsDescending ==
    Saved =>
        LET items    == fn_arg.items
            sections == fn_out.sections
            real     == {i \in 1..Len(items) : items[i].content # NoCommits}
        IN  /\ Len(sections) = Cardinality(real)
            /\ \A i \in real : \E k \in 1..Len(sections) :
                   /\ sections[k].to_part = ToMarker(items[i].key)
                   /\ sections[k].content = items[i].content
            /\ \A k \in 1..Len(sections) : sections[k].content # NoCommits
            /\ \A k, l \in 1..Len(sections) :
                   k < l => MarkerLeq(sections[l].to_part, sections[k].to_part)
            /\ \A k \in 1..Len(sections) :
                   sections[k].label = IF sections[k].to_part = HeadMarker
                                       THEN Unreleased ELSE sections[k].to_part

----------------------------------------------------------------------------
\* parse_version.

\* A name was parsed.
Parsed == fn_op = "parse_version" /\ fn_out # <<>>

\* C20: parse removes a single leading "v" or "V" and splits the rest on
\* "."; with three fields or more whose first three are integers the result
\* is these three, the further fields ignored; for every other name it is
\* (0, 0, 0).
C20_ParseLenient ==
    Parsed =>
        LET s      == fn_arg.tag
            rest   == IF Len(s) > 0 /\ s[1] \in {"v", "V"} THEN Tail(s) ELSE s
            fields == split(rest, ".")
        IN  fn_out.value =
                IF Len(fields) >= 3 /\ \A i \in 1..3 : IsInt(fields[i])
                THEN <<int(fields[1]), int(fields[2]), int(fields[3])>>
                ELSE <<0, 0, 0>>

----------------------------------------------------------------------------
\* The sign of the versions.

\* C21: every version parse_version returns has non-negative major, minor
\* and patch.
C21_NeverNegative ==
    Parsed => \A i \in 1..3 : fn_out.value[i] >= 0

----------------------------------------------------------------------------
\* The last tag and the next version.

\* The highest version of the tags of a repository, (0, 0, 0) without tags.
HighestVersion(repo) ==
    IF repo = {} THEN <<0, 0, 0>>
    ELSE CHOOSE v \in {parse_version(t) : t \in repo} :
             \A t \in repo : VLeq(parse_version(t), v)

\* C22: get_next_version returns "v{major}.{minor}.{patch}" of the one-step
\* bump of the highest tag version, (0, 0, 0) without tags: major gives
\* (M+1, 0, 0), minor (M, m+1, 0), patch (M, m, p+1); any other type raises
\* ValueError; no step of the call changes the tags.
C22_NextVersion ==
    /\ [](fn_op = "get_next_version" /\ fn_out # <<>> =>
            LET h == HighestVersion(fn_arg.repo)
                t == fn_arg.version_type
            IN  /\ t = "major" =>
                    fn_out = [raised |-> "no", value |-> format_version(<<h[1] + 1, 0, 0>>)]
                /\ t = "minor" =>
                    fn_out = [raised |-> "no", value |-> format_version(<<h[1], h[2] + 1, 0>>)]
                /\ t = "patch" =>
                    fn_out = [raised |-> "no", value |-> format_version(<<h[1], h[2], h[3] + 1>>)]
                /\ t \notin VersionTypes => fn_out.raised = "ValueError")
    /\ [][fn_op = "get_next_version" => fn_arg'.repo = fn_arg.repo]_vars

\* A minor bump of a repository whose highest tag is v1.2.3 gives v1.3.0.
C22_Witness ==
    /\ fn_op = "get_next_version"
    /\ HighestVersion(fn_arg.repo) = <<1, 2, 3>>
    /\ fn_arg.version_type = "minor"
    /\ fn_out # <<>>
    /\ fn_out.value = format_version(<<1, 3, 0>>)

\* C23: get_last_tag returns None without tags and otherwise the name of a
\* tag of the repository whose parsed version no other tag exceeds, a
\* malformed name counting as (0, 0, 0).
C23_LastTagIsMaximal ==
    fn_op = "get_last_tag" /\ fn_out # <<>> =>
        /\ fn_arg.repo = {} <=> fn_out.value = NoTag
        /\ fn_arg.repo # {} =>
            /\ fn_out.value \in fn_arg.repo
            /\ \A t \in fn_arg.repo : VLeq(parse_version(t), parse_version(fn_out.value))
            /\ ShortTag \in fn_arg.repo /\ Cardinality(fn_arg.repo) > 1 =>
                   fn_out.value # ShortTag

\* The last tag of a repository with a malformed name and two releases.
C23_Witness ==
    /\ fn_op = "get_last_tag"
    /\ fn_out # <<>>
    /\ ShortTag \in fn_arg.repo
    /\ Cardinality(fn_arg.repo) = 3
    /\ fn_out.value \in fn_arg.repo

----------------------------------------------------------------------------
\* The configuration file.

\* a is a proper dot-prefix of b.
DotPrefix(a, b) ==
    LET ka == split(a, ".")
        kb == split(b, ".")
    IN  Len(ka) < Len(kb) /\ SubSeq(kb, 1, Len(ka)) = ka

\* No key that was set is a dot-prefix of another one.
PrefixFree ==
    \A i, j \in 1..Len(cfg_sets) : ~DotPrefix(cfg_sets[i].key, cfg_sets[j].key)

\* The value of the latest set on key, None when there is none.
LatestSet(key) ==
    LET on == {i \in 1..Len(cfg_sets) : cfg_sets[i].key = key}
    IN  IF on = {} THEN NoValue
        ELSE cfg_sets[CHOOSE i \in on : \A j \in on : j <= i].value

\* C24: after set_config_value calls none of whose keys is a dot-prefix of
\* another, get_config_value(k) returns the value of the latest set on k,
\* None for a key never set, and None for a key that names a section.
C24_GetReturnsLatestSet ==
    cfg_got # <<>> /\ PrefixFree =>
        /\ cfg_got.value = LatestSet(cfg_got.key)
        /\ (\E i \in 1..Len(cfg_sets) : DotPrefix(cfg_got.key, cfg_sets[i].key))
               => cfg_got.value = NoValue

\* A nested key set twice with another nested key set in between is read
\* with its later value.
C24_Witness ==
    /\ cfg_got # <<>>
    /\ PrefixFree
    /\ Len(cfg_sets) = 3
    /\ cfg_sets[1].key = cfg_got.key
    /\ cfg_sets[3].key = cfg_got.key
    /\ cfg_sets[2].key # cfg_got.key
    /\ Len(split(cfg_got.key, ".")) = 2
    /\ cfg_sets[1].value # cfg_sets[3].value
    /\ cfg_got.value = cfg_sets[3].value

----------------------------------------------------------------------------
\* The update of pyproject.toml.

\* The prompt loop was run.
Updated == fn_op = "update_project_version" /\ fn_out # <<>>

\* The (major, minor, patch) of a SemVer string, its pre-release and build
\* suffixes left out.
SemVerCore(v) ==
    LET plus  == find(v, "+")
        noBld == IF plus = 0 THEN v ELSE SubSeq(v, 1, plus - 1)
        dash  == find(noBld, "-")
    IN  parse_version(IF dash = 0 THEN noBld ELSE SubSeq(noBld, 1, dash - 1))

\* The version written is ahead of the latest changelog version: its
\* (major, minor, patch) is the greater.
WrittenAhead ==
    /\ Updated
    /\ fn_out.outcome = "written"
    /\ fn_out.changelog_version # NoVersion
    /\ VLess(SemVerCore(fn_out.changelog_version), SemVerCore(fn_out.manifest))

\* C25: a version ahead of the latest changelog version is written to
\* pyproject.toml only after the operator answered "s" to a confirmation;
\* when the answer is anything else or Ctrl-C, pyproject.toml is unchanged.
C25_AheadOnlyAfterConfirmation ==
    /\ WrittenAhead => fn_out.asked # "none" /\ fn_arg.answer = "s"
    /\ Updated /\ fn_out.asked # "none" /\ fn_arg.answer # "s"
           => fn_out.manifest = fn_arg.current_version

----------------------------------------------------------------------------
\* Two processes on one progress store.

\* At most one process has left its idle state.
SingleOperator == Cardinality({p \in Procs : cc_pc[p] # "idle"}) <= 1

\* C26: the progress file is read only when a run starts and every write
\* is the writer's whole dict; while a single process runs, no entry of the
\* file is lost or changed by a write.
C26_WholeMappingWrites ==
    [][/\ \A p \in Procs :
             cc_progress'[p] # cc_progress[p] /\ cc_pc[p] # "idle" =>
                 /\ \A k \in DOMAIN cc_progress[p] :
                        k \in DOMAIN cc_progress'[p] /\ cc_progress'[p][k] = cc_progress[p][k]
                 /\ Cardinality(DOMAIN cc_progress'[p]) = Cardinality(DOMAIN cc_progress[p]) + 1
       /\ cc_file' # cc_file => \E p \in Procs : cc_file' = JsonFile(cc_progress'[p])
       /\ SingleOperator' =>
             \A k \in DOMAIN cc_file.data :
                 k \in DOMAIN cc_file'.data /\ cc_file'.data[k] = cc_file.data[k]]_vars

\* A lost update: an entry that one process wrote is no longer in the file
\* after the other's write, under any content.
C26_Witness ==
    /\ cc_pc # <<>>
    /\ \E e \in cc_written :
          /\ e[2] \in Procs
          /\ e[1] \notin DOMAIN cc_file.data

----------------------------------------------------------------------------
\* The commits of a first release.

\* _get_commits_until_tag returned.
UntilReturned == rs_pc = "until_returned"

\* The tags below to_tag and the highest of them.
LowerTags == {t \in DOMAIN rs_tag : VLess(parse_version(t), parse_version(to_tag))}
NextLower ==
    CHOOSE t \in LowerTags : \A u \in LowerTags : VLeq(parse_version(u), parse_version(t))

\* C27: when its git calls succeed, _get_commits_until_tag on an existing
\* tag returns, each once, the commits reachable from to_tag and not from
\* the tag of the next lower version, and all the ancestors of to_tag, its
\* own commit included, when no tag has a lower version; in every case it
\* returns a list.
C27_UntilTag ==
    UntilReturned =>
        /\ rs_via \in {1, 2, 3}
        /\ rs_failed = {} =>
            /\ to_tag \in DOMAIN rs_tag
            /\ Len(rs_result) = Cardinality(ResultSet)
            /\ IF LowerTags = {}
               THEN /\ ResultSet = ancestors(rs_parents, rs_tag[to_tag])
                    /\ rs_tag[to_tag] \in ResultSet
               ELSE ResultSet = ancestors(rs_parents, rs_tag[to_tag])
                                    \ ancestors(rs_parents, rs_tag[NextLower])

\* A tag with two lower tags: the commits not reachable from the closer one
\* are returned, and they are fewer than those not reachable from the
\* other.
C27_Witness ==
    /\ UntilReturned
    /\ rs_failed = {}
    /\ Cardinality(LowerTags) = 2
    /\ rs_result # <<>>
    /\ \E u \in LowerTags :
          Cardinality(ancestors(rs_parents, rs_tag[to_tag]) \ ancestors(rs_parents, rs_tag[u]))
              > Len(rs_result)

----------------------------------------------------------------------------
\* A rebuild that stops early.

\* C28: a rebuild run that returns before its loop (incomplete AI
\* configuration, untagged commits, no tags) leaves the progress file and
\* the versions of CHANGELOG.md as they were.
C28_EarlyStopKeepsProgress ==
    [][runs' # runs /\ rebuild' /\ pc' = "returned_early" =>
           /\ file' = file
           /\ changelog_file_versions' = changelog_file_versions]_vars

----------------------------------------------------------------------------
\* The modification of a tag.

\* C29: after a modification of a tag, either the new tag exists on the
\* commit of the old one and the old name is gone, or the old tag still
\* exists on its commit.
C29_RenameAllOrNothing ==
    rn_last # <<>> =>
        \/ /\ rn_last.new_name \in DOMAIN rn_tags
           /\ rn_tags[rn_last.new_name].commit = rn_last.commit
           /\ rn_last.new_name # rn_last.old_name => rn_last.old_name \notin DOMAIN rn_tags
        \/ /\ rn_last.old_name \in DOMAIN rn_tags
           /\ rn_tags[rn_last.old_name].commit = rn_last.commit

----------------------------------------------------------------------------
\* The preview of the tags.

\* C30: the tag names show_tag_preview prints for a batch are, commit by
\* commit, the names apply_tags plans for it on the same repository.
C30_PreviewIsPlan ==
    Planned => show_tag_preview(repo_tags, commits) = pending_versions

====
